---- MODULE Spec2Model ----
(***************************************************************************)
(* ZenPDF worker: the polling loop of ZenPdfWorker (worker.py), its        *)
(* heartbeat threads and the ConvexClient RPC layer (client.py).           *)
(*                                                                         *)
(* Threads: the main thread running run()/_process_job, and one heartbeat  *)
(* thread per claimed job.  Every queue RPC is two steps: the request is   *)
(* issued while the client lock is taken, the response arrives and the     *)
(* lock is released.  `log` is the trace of the main thread's events for   *)
(* the job claimed last; `reports` is the sequence of reportJobProgress    *)
(* calls for that job, of both threads, in the order they were issued.     *)
(* Both start anew when the next job is claimed.  The fields of the job    *)
(* descriptor are drawn when the code first reads them.                    *)
(***************************************************************************)
EXTENDS Integers, Sequences, FiniteSets, TLC

\* ---------------------------------------------------------------- bounds
MaxJobs == 1      \* jobs the queue hands out
MaxInputs == 1    \* inputs of a job: 0..MaxInputs
MaxBeats == 1     \* heartbeat timer expiries in a run
MaxOk == 2        \* commands of one compress_pdf call that exit 0
MaxTimeouts == 1  \* commands of one compress_pdf call that time out
MaxParallelism == 2  \* ZENPDF_COMPRESS_PARALLELISM: 1..MaxParallelism

\* every return of _run_tool is a one-element list
NumOutputs == 1

Jobs == 1..MaxJobs
Tools == {"compress", "merge"}

VARIABLES
    pc,        \* position of the main thread
    cur,       \* number of jobs claimed so far; the current job's id
    tool,      \* job["tool"] of the current job, once _run_tool has read it
    nInputs,   \* len(job["inputs"]) of the current job
    dlIdx,     \* inputs downloaded so far
    ulIdx,     \* outputs uploaded so far
    outputs,   \* what _run_tool returned: a list of "path" or of "tuple"
    exc,       \* the exception the main thread is handling
    scratch,   \* the TemporaryDirectory of the current job exists
    progress,  \* progress["value"] of each job
    stop,      \* stop_event of each job
    hbpc,      \* position of each job's heartbeat thread
    hbval,     \* the progress value a heartbeat read for its next report
    beats,     \* heartbeat timer expiries so far
    lock,      \* holder of self._client_lock
    inflight,  \* threads with a ConvexClient call in flight
    log,       \* the main thread's events for the current job, in order
    reports    \* the reportJobProgress calls for the current job, in issue order

workerVars == <<pc, cur, tool, nInputs, dlIdx, ulIdx, outputs, exc, scratch,
                progress, stop, hbpc, hbval, beats, lock, inflight, log, reports>>

\* compress_pdf (tools.py): the state of one call of the pipeline
VARIABLES
    cpc,            \* position in compress_pdf
    cfg,            \* environment flags and binaries found, once read
    files,          \* the files of the scratch directory, by name
    oks,            \* commands that exited 0 so far
    touts,          \* commands that timed out so far
    steps,          \* steps: the report's step entries
    warnings,       \* warnings
    candidates,     \* candidates: the validated outputs selection reads
    tempPaths,      \* temp_paths
    normalizedPath, \* normalized_path
    basePath,       \* base_path
    gsInputPath,    \* gs_input_path
    shouldRun,      \* should_run_heavy
    taskSpecs,      \* task_specs: the names of the heavy lanes, in order
    taskResults,    \* task_results, in insertion order
    lanePc,         \* position of each lane task
    laneOut,        \* the outcome bundle each lane task builds
    best,           \* best
    method,         \* method
    status,         \* status
    finalPath,      \* final_path
    raised          \* the message of the ValueError compress_pdf raised

budgetVars == <<oks, touts>>
listVars == <<steps, warnings, candidates, tempPaths>>
pathVars == <<normalizedPath, basePath, gsInputPath>>
laneVars == <<shouldRun, taskSpecs, taskResults, lanePc, laneOut>>
selVars == <<best, method, status, finalPath>>

compressVars == <<cpc, cfg, files, budgetVars, listVars, pathVars, laneVars, selVars, raised>>

\* web_to_pdf: position, the parsed URL, ZENPDF_WEB_ALLOW_HOSTNAME_FALLBACK,
\* target_ip, the connections opened so far, the body, the exception that left
\* the call and the file written
VARIABLES wpc, parsed, allowFallback, targetIp, conns, body, wraised, wout

webVars == <<wpc, parsed, allowFallback, targetIp, conns, body, wraised, wout>>

\* a call of one function of the worker taken on its own: its arguments, and
\* what it returned or raised once it has run
VARIABLES call, ret

callVars == <<call, ret>>

toolVars == <<compressVars, webVars, callVars>>

vars == <<workerVars, toolVars>>

jobVars == <<cur, tool, nInputs>>
loopVars == <<dlIdx, ulIdx, outputs>>
hbVars == <<progress, stop, hbpc, hbval, beats>>

\* ---------------------------------------------------------------- threads
Main == <<"main", 0>>
Hb(j) == <<"hb", j>>
NoThread == <<"none", 0>>

\* ---------------------------------------------------------------- errors
NoExc == [cls |-> "none", text |-> "", src |-> ""]
Exc(c, t, s) == [cls |-> c, text |-> t, src |-> s]

\* Python's exception hierarchy: json.JSONDecodeError (and the
\* requests.exceptions.JSONDecodeError that response.json() raises) derive
\* from ValueError; the others here do not.
IsValueError(cls) == cls \in {"ValueError", "JSONDecodeError"}

GenericMessage == "Processing failed. Please retry."

\* ---------------------------------------------------------------- client.py
Bodies == {"success", "error", "unparsable"}

LeaseLapsed == "lease lapsed"

\* the queue has answered a call for job j with "lease lapsed"
Lapsed(j) ==
    \/ \E i \in 1..Len(log) : log[i].job = j /\ log[i].text = LeaseLapsed
    \/ \E i \in 1..Len(reports) : reports[i].job = j /\ reports[i].text = LeaseLapsed

\* the queue has accepted a terminal event of job j
TerminalAccepted(j) ==
    \E i \in 1..Len(log) :
        log[i].job = j /\ log[i].op \in {"complete", "fail"} /\ log[i].res = "ok"

\* The lease is renewed by progress reports and released by a terminal event.
\* While the job in progress holds it the queue may let it lapse, and from
\* then on it rejects progress and completion of that job.
LeaseOps == {"report", "complete"}

MayLapse(j) == j = cur /\ ~TerminalAccepted(j)

\* a heartbeat report of the current job was rejected because the lease lapsed
HeartbeatLapsed ==
    \E i \in 1..Len(reports) :
        reports[i].th = "hb" /\ reports[i].job = cur /\ reports[i].text = LeaseLapsed

\* What session.post can produce for one call.
HttpResponses(op, j) ==
    {[io |-> TRUE, status |-> 0, body |-> "", msg |-> ""]}
    \cup {[io |-> FALSE, status |-> s, body |-> b, msg |-> m] :
            s \in {200, 560, 500},
            b \in IF op \in LeaseOps /\ Lapsed(j) THEN Bodies \ {"success"} ELSE Bodies,
            m \in IF op \notin LeaseOps THEN {"errorMessage"}
                  ELSE IF Lapsed(j) THEN {LeaseLapsed}
                  ELSE IF MayLapse(j) THEN {"errorMessage", LeaseLapsed}
                  ELSE {"errorMessage"}}

\* ConvexClient._call: the exception it raises, "none" when it returns value.
Call(resp) ==
    IF resp.io THEN Exc("ConnectionError", "connection failed", "rpc")
    ELSE IF resp.status \notin {200, 560} THEN Exc("RuntimeError", "response.text", "rpc")
    ELSE IF resp.body = "unparsable" THEN Exc("JSONDecodeError", "Expecting value", "rpc")
    ELSE IF resp.body = "success" THEN NoExc
    ELSE Exc("ConvexError", resp.msg, "rpc")

\* ---------------------------------------------------------------- the log
Ev(op, j) ==
    [op |-> op, job |-> j, prog |-> 0, code |-> "", msg |-> "",
     logged |-> "", res |-> "ok", text |-> "", cls |-> "", src |-> "",
     hbLapsed |-> FALSE]

Rep(th, j, p, late) ==
    [th |-> th, job |-> j, prog |-> p, res |-> "pending", text |-> "", late |-> late]

Pending(e) == [e EXCEPT !.res = "pending"]

\* the response of the call that is in flight is recorded in its entry
Answered(l, r) ==
    IF Len(l) = 0 THEN l
    ELSE [l EXCEPT ![Len(l)].res = IF r.cls = "none" THEN "ok" ELSE "error",
                   ![Len(l)].text = IF r.cls = "ConvexError" /\ r.text = LeaseLapsed
                                    THEN LeaseLapsed ELSE l[Len(l)].text]

\* ---------------------------------------------------------------- the lock
\* a client call issued without taking the lock
CanAcquireUnlocked(t) == TRUE

\* `with self._client_lock:` in _mutation and _query
CanAcquire(t) == lock = NoThread

\* enter the with block and hand the request to the client
Issue(t) ==
    /\ CanAcquire(t)
    /\ lock' = t
    /\ inflight' = inflight \cup {t}

\* the client call returned or raised; leave the with block
Release(t) ==
    /\ t \in inflight
    /\ inflight' = inflight \ {t}
    /\ lock' = NoThread

\* ---------------------------------------------------------------- compress_pdf: state
\* every file compress_pdf reads or writes: the input, output_path and the
\* _tmp_path names
Paths == {"input", "output", "normalized", "qpdf_norm", "rewrite", "optimized",
          "mutool_opt", "gs_early", "gs_qpdf", "image_opt", "pdfsizeopt",
          "gs_probe", "gs", "deterministic", "zopfli"}

\* st: "none" (never written), "failed" (whatever a failed command left),
\* "invalid" or "valid" (what _validate_candidate says of it), "unreadable"
\* (invalid, and pypdf cannot read it either);
\* data names the command that produced the bytes
NoFile == [st |-> "none", size |-> 0, data |-> ""]

Lanes == {"image_opt", "pdfsizeopt", "ghostscript"}

\* _empty_outcome()
EmptyOutcome == [steps |-> <<>>, candidates |-> <<>>, tempPaths |-> <<>>, warnings |-> <<>>]

NoCandidate == [path |-> "", method |-> "", label |-> "", size |-> 0]

\* flags and binaries are drawn when compress_pdf first uses them.  deploy
\* names the deployments a specification ranges over:
\*   "binaries": any set of binaries installed, the lane flags at their defaults
\*   "lanes":    any lane flags and parallelism, mutool not installed
\*   "plain":    at most qpdf installed, the lane flags at their defaults
CfgUnread ==
    [deploy |-> "binaries", mutool |-> FALSE, qpdf |-> FALSE, gs |-> FALSE, pdfsizeopt |-> FALSE,
     imageHeavy |-> FALSE, sizeBig |-> FALSE, enableImageOpt |-> FALSE,
     enablePdfsizeopt |-> FALSE, parallelism |-> 1, useZopfli |-> FALSE]

CompressLocals ==
    /\ oks = 0
    /\ touts = 0
    /\ steps = <<>>
    /\ warnings = <<>>
    /\ candidates = <<>>
    /\ tempPaths = <<>>
    /\ normalizedPath = "input"
    /\ basePath = "input"
    /\ gsInputPath = "input"
    /\ shouldRun = FALSE
    /\ taskSpecs = <<>>
    /\ taskResults = <<>>
    /\ lanePc = [l \in Lanes |-> "off"]
    /\ laneOut = [l \in Lanes |-> EmptyOutcome]
    /\ best = NoCandidate
    /\ method = ""
    /\ status = ""
    /\ finalPath = ""
    /\ raised = ""

\* no call of compress_pdf is in progress
CompressIdle ==
    /\ cpc = "idle"
    /\ files = [p \in Paths |-> NoFile]
    /\ cfg = CfgUnread
    /\ CompressLocals

NoAddr == [v |-> 0, class |-> "none"]

NoUrl == [scheme |-> "", hostname |-> FALSE]

\* no web_to_pdf call is in progress
WebIdle ==
    /\ wpc = "idle"
    /\ parsed = NoUrl
    /\ allowFallback = "unread"
    /\ targetIp = NoAddr
    /\ conns = <<>>
    /\ body = 0
    /\ wraised = ""
    /\ wout = -1

NoCall == [fn |-> "none"]

NotReturned == [done |-> FALSE]

\* no function is being called on its own
CallIdle ==
    /\ call = NoCall
    /\ ret = NotReturned

\* ---------------------------------------------------------------- Init
WorkerInit ==
    /\ pc = "claim"
    /\ cur = 0
    /\ tool = "unread"
    /\ nInputs = 0
    /\ dlIdx = 0
    /\ ulIdx = 0
    /\ outputs = "none"
    /\ exc = NoExc
    /\ scratch = FALSE
    /\ progress = [j \in Jobs |-> 0]
    /\ stop = [j \in Jobs |-> FALSE]
    /\ hbpc = [j \in Jobs |-> "off"]
    /\ hbval = [j \in Jobs |-> 0]
    /\ beats = 0
    /\ lock = NoThread
    /\ inflight = {}
    /\ log = <<>>
    /\ reports = <<>>

Init == WorkerInit /\ CompressIdle /\ WebIdle /\ CallIdle

\* ---------------------------------------------------------------- run()
\* run(): self._mutation("jobs:claimNextJob", ...)
ClaimSend ==
    /\ pc = "claim"
    /\ Main \notin inflight
    /\ Issue(Main)
    /\ UNCHANGED <<pc, jobVars, loopVars, exc, scratch, hbVars, log, reports>>
    /\ UNCHANGED toolVars

\* the claim returns a job, returns nothing, or raises out of run()
ClaimRecv ==
    /\ pc = "claim"
    /\ Release(Main)
    /\ \E resp \in HttpResponses("claim", 0) :
         LET r == Call(resp) IN
         IF r.cls # "none"
         THEN /\ pc' = "crashed"
              /\ exc' = r
              /\ UNCHANGED <<jobVars, log, reports>>
         ELSE \/ /\ pc' = "sleep"
                 /\ UNCHANGED <<jobVars, log, reports, exc>>
              \/ /\ cur < MaxJobs
                 /\ \E n \in 0..MaxInputs : nInputs' = n
                 /\ tool' = "unread"
                 /\ cur' = cur + 1
                 /\ log' = <<>>
                 /\ reports' = <<>>
                 /\ pc' = "start"
                 /\ exc' = exc
    /\ UNCHANGED <<loopVars, scratch, hbVars>>
    /\ UNCHANGED toolVars

\* time.sleep(poll_interval); continue
Sleep ==
    /\ pc = "sleep"
    /\ pc' = "claim"
    /\ UNCHANGED <<jobVars, loopVars, exc, scratch, hbVars, lock, inflight, log, reports>>
    /\ UNCHANGED toolVars

\* ---------------------------------------------------------------- _process_job
\* the final progress report issued before completeJob
ProcessJobNextSwapped(p) ==
    CASE p = "r10" -> "dl"
      [] p = "dl" -> "r40"
      [] p = "r40" -> "tool"
      [] p = "tool" -> "r75"
      [] p = "r75" -> "ul"
      [] p = "ul" -> "r100"
      [] p = "r100" -> "complete"
      [] p = "complete" -> "finally"

\* the statements of the try block, in program order
ProcessJobNext(p) ==
    CASE p = "r10" -> "dl"
      [] p = "dl" -> "r40"
      [] p = "r40" -> "tool"
      [] p = "tool" -> "r75"
      [] p = "r75" -> "ul"
      [] p = "ul" -> "complete"
      [] p = "complete" -> "r100"
      [] p = "r100" -> "finally"

ReportPcs == {"r10", "r40", "r75", "r100"}

ReportValue(p) ==
    CASE p = "r10" -> 10
      [] p = "r40" -> 40
      [] p = "r75" -> 75
      [] p = "r100" -> 100

\* positions inside `with TemporaryDirectory() as temp:`
InWith == {"dl", "dlGet", "r40", "tool", "r75", "ul", "ulOpen"}

\* an exception reaches the except clauses from a try block that has no
\* `with TemporaryDirectory()` around its body
RaiseKeepingDir(e) ==
    /\ exc' = e
    /\ pc' = "handler"
    /\ scratch' = scratch

\* an exception leaves the with block (the directory is removed) and
\* reaches the except clauses
Raise(e) ==
    /\ exc' = e
    /\ pc' = "handler"
    /\ scratch' = FALSE

Goto(p) ==
    /\ pc' = p
    /\ scratch' = (p \in InWith)
    /\ exc' = exc

\* progress = {"value": 10}; stop_event; heartbeat.start()
StartHeartbeat ==
    /\ pc = "start"
    /\ progress' = [progress EXCEPT ![cur] = 10]
    /\ stop' = [stop EXCEPT ![cur] = FALSE]
    /\ hbpc' = [hbpc EXCEPT ![cur] = "wait"]
    /\ log' = Append(log, Ev("hbStart", cur))
    /\ dlIdx' = 0
    /\ ulIdx' = 0
    /\ outputs' = "none"
    /\ Goto("r10")
    /\ UNCHANGED <<jobVars, hbval, beats, lock, inflight, reports>>
    /\ UNCHANGED toolVars

\* self._report(job_id, 10 | 40 | 75 | 100)
ReportSend ==
    /\ pc \in ReportPcs
    /\ Main \notin inflight
    /\ Issue(Main)
    /\ log' = Append(log, Pending([Ev("report", cur) EXCEPT !.prog = ReportValue(pc)]))
    /\ reports' = Append(reports, Rep("main", cur, ReportValue(pc), FALSE))
    /\ UNCHANGED <<pc, jobVars, loopVars, exc, scratch, hbVars>>
    /\ UNCHANGED toolVars

ReportRecv ==
    /\ pc \in ReportPcs
    /\ Release(Main)
    /\ \E resp \in HttpResponses("report", cur) :
         LET r == Call(resp) IN
         /\ log' = Answered(log, r)
         /\ reports' = Answered(reports, r)
         /\ IF r.cls = "none" THEN Goto(ProcessJobNext(pc)) ELSE Raise(r)
    /\ UNCHANGED <<jobVars, loopVars, hbVars>>
    /\ UNCHANGED toolVars

\* _download_inputs: self._query("files:getDownloadUrl", ...)
DownloadUrlSend ==
    /\ pc = "dl"
    /\ dlIdx < nInputs
    /\ Main \notin inflight
    /\ Issue(Main)
    /\ log' = Append(log, Pending(Ev("getDownloadUrl", cur)))
    /\ UNCHANGED <<pc, jobVars, loopVars, exc, scratch, hbVars, reports>>
    /\ UNCHANGED toolVars

DownloadUrlRecv ==
    /\ pc = "dl"
    /\ Release(Main)
    /\ \E resp \in HttpResponses("getDownloadUrl", cur), url \in BOOLEAN :
         LET r == Call(resp) IN
         /\ log' = Answered(log, r)
         /\ IF r.cls # "none" THEN Raise(r)
            ELSE IF ~url THEN Raise(Exc("RuntimeError", "Missing download URL", "worker"))
            ELSE Goto("dlGet")
    /\ UNCHANGED <<jobVars, loopVars, hbVars, reports>>
    /\ UNCHANGED toolVars

\* _download_inputs: requests.get(url, stream=True) into temp
DownloadBlob ==
    /\ pc = "dlGet"
    /\ \/ /\ dlIdx' = dlIdx + 1
          /\ log' = Append(log, Ev("download", cur))
          /\ Goto("dl")
       \/ /\ dlIdx' = dlIdx
          /\ log' = Append(log, [Ev("download", cur) EXCEPT !.res = "error"])
          /\ Raise(Exc("HTTPError", "404 Client Error", "blob"))
    /\ UNCHANGED <<jobVars, ulIdx, outputs, hbVars, lock, inflight, reports>>
    /\ UNCHANGED toolVars

\* inputs = self._download_inputs(...) returned; progress["value"] = 40
DownloadsDone ==
    /\ pc = "dl"
    /\ dlIdx = nInputs
    /\ Main \notin inflight
    /\ progress' = [progress EXCEPT ![cur] = 40]
    /\ Goto(ProcessJobNext(pc))
    /\ UNCHANGED <<jobVars, loopVars, stop, hbpc, hbval, beats, lock, inflight, log, reports>>
    /\ UNCHANGED toolVars

\* _run_tool: compress_pdf returns (final_path, result_payload), the other
\* tools return a Path; each is wrapped in a one-element list
RunToolResult(t) == IF t = "compress" THEN "tuple" ELSE "path"

ToolErrors ==
    {Exc("ValueError", "PDF is encrypted", "tool"),
     Exc("RuntimeError", "tool failed", "tool"),
     Exc("RuntimeError", "", "tool")}

\* outputs = self._run_tool(job, inputs, temp_path); progress["value"] = 75
RunTool ==
    /\ pc = "tool"
    /\ \E t \in Tools :
         /\ tool' = t
         /\ \/ /\ outputs' = RunToolResult(t)
               /\ progress' = [progress EXCEPT ![cur] = 75]
               /\ log' = Append(log, Ev("tool", cur))
               /\ Goto(ProcessJobNext(pc))
            \/ \E e \in ToolErrors :
                 /\ outputs' = outputs
                 /\ progress' = progress
                 /\ log' = Append(log, [Ev("tool", cur) EXCEPT !.res = "error"])
                 /\ Raise(e)
    /\ UNCHANGED <<cur, nInputs, dlIdx, ulIdx, stop, hbpc, hbval, beats, lock, inflight, reports>>
    /\ UNCHANGED toolVars

\* _upload_outputs: self._mutation("files:generateUploadUrl", ...)
UploadUrlSend ==
    /\ pc = "ul"
    /\ ulIdx < NumOutputs
    /\ Main \notin inflight
    /\ Issue(Main)
    /\ log' = Append(log, Pending(Ev("generateUploadUrl", cur)))
    /\ UNCHANGED <<pc, jobVars, loopVars, exc, scratch, hbVars, reports>>
    /\ UNCHANGED toolVars

UploadUrlRecv ==
    /\ pc = "ul"
    /\ Release(Main)
    /\ \E resp \in HttpResponses("generateUploadUrl", cur) :
         LET r == Call(resp) IN
         /\ log' = Answered(log, r)
         /\ IF r.cls # "none" THEN Raise(r) ELSE Goto("ulOpen")
    /\ UNCHANGED <<jobVars, loopVars, hbVars, reports>>
    /\ UNCHANGED toolVars

\* _upload_outputs: output.open("rb"); requests.post(upload_url, data=handle);
\* response.raise_for_status(); response.json()["storageId"]
UploadBlob ==
    /\ pc = "ulOpen"
    /\ IF outputs = "tuple"
       THEN /\ ulIdx' = ulIdx
            /\ log' = Append(log, [Ev("open", cur) EXCEPT !.res = "error"])
            /\ Raise(Exc("AttributeError", "'tuple' object has no attribute 'open'", "worker"))
       ELSE \/ /\ ulIdx' = ulIdx + 1
               /\ log' = Append(log, Ev("upload", cur))
               /\ Goto("ul")
            \/ /\ ulIdx' = ulIdx
               /\ log' = Append(log, [Ev("upload", cur) EXCEPT !.res = "error"])
               /\ Raise(Exc("HTTPError", "500 Server Error", "blob"))
            \/ /\ ulIdx' = ulIdx
               /\ log' = Append(log, [Ev("upload", cur) EXCEPT !.res = "error"])
               /\ Raise(Exc("JSONDecodeError", "Expecting value", "blob"))
    /\ UNCHANGED <<jobVars, dlIdx, outputs, hbVars, lock, inflight, reports>>
    /\ UNCHANGED toolVars

\* output_payload = self._upload_outputs(outputs) returned; the with block ends
UploadsDone ==
    /\ pc = "ul"
    /\ ulIdx = NumOutputs
    /\ Main \notin inflight
    /\ Goto(ProcessJobNext(pc))
    /\ UNCHANGED <<jobVars, loopVars, hbVars, lock, inflight, log, reports>>
    /\ UNCHANGED toolVars

\* self._mutation("jobs:completeJob", ...)
CompleteSend ==
    /\ pc = "complete"
    /\ Main \notin inflight
    /\ Issue(Main)
    /\ log' = Append(log, Pending([Ev("complete", cur) EXCEPT !.hbLapsed = HeartbeatLapsed]))
    /\ UNCHANGED <<pc, jobVars, loopVars, exc, scratch, hbVars, reports>>
    /\ UNCHANGED toolVars

CompleteRecv ==
    /\ pc = "complete"
    /\ Release(Main)
    /\ \E resp \in HttpResponses("complete", cur) :
         LET r == Call(resp) IN
         /\ log' = Answered(log, r)
         /\ IF r.cls = "none" THEN Goto(ProcessJobNext(pc)) ELSE Raise(r)
    /\ UNCHANGED <<jobVars, loopVars, hbVars, reports>>
    /\ UNCHANGED toolVars

\* the except clauses without the one for ValueError
ClassifyAllTransient(e) ==
    [code |-> "SERVICE_CAPACITY_TEMPORARY", msg |-> GenericMessage, logmsg |-> e.text]

\* the except clauses of _process_job: the arguments handed to _safe_fail
Classify(e) ==
    IF IsValueError(e.cls)
    THEN [code |-> "USER_INPUT_INVALID", msg |-> e.text, logmsg |-> e.text]
    ELSE IF e.cls = "ConvexError"
    THEN [code |-> "SERVICE_CAPACITY_TEMPORARY", msg |-> GenericMessage, logmsg |-> e.text]
    ELSE [code |-> "SERVICE_CAPACITY_TEMPORARY", msg |-> GenericMessage, logmsg |-> e.text]

\* _fail: print(f"... {log_message or error_message}")
Printed(c) == IF c.logmsg # "" THEN c.logmsg ELSE c.msg

\* _safe_fail -> _fail: self._mutation("jobs:failJob", ...)
FailSend ==
    /\ pc = "handler"
    /\ Main \notin inflight
    /\ Issue(Main)
    /\ LET c == Classify(exc) IN
       log' = Append(log, Pending([Ev("fail", cur) EXCEPT
                       !.code = c.code, !.msg = c.msg, !.logged = Printed(c),
                       !.cls = exc.cls, !.src = exc.src, !.text = exc.text,
                       !.hbLapsed = HeartbeatLapsed]))
    /\ UNCHANGED <<pc, jobVars, loopVars, exc, scratch, hbVars, reports>>
    /\ UNCHANGED toolVars

\* _fail called without the try/except of _safe_fail: what it raises leaves
\* _process_job and run()
SafeFailNextUnwrapped(r) == IF r.cls = "none" THEN "finally" ELSE "crashed"

\* _safe_fail: `except Exception` swallows whatever the failJob call raises,
\* and control reaches the finally clause of _process_job
SafeFailNext(r) == "finally"

FailRecv ==
    /\ pc = "handler"
    /\ Release(Main)
    /\ \E resp \in HttpResponses("fail", cur) :
         LET r == Call(resp) IN
         /\ log' = [log EXCEPT ![Len(log)].res = IF r.cls = "none" THEN "ok" ELSE "error"]
         /\ pc' = SafeFailNext(r)
    /\ exc' = NoExc
    /\ UNCHANGED <<jobVars, loopVars, scratch, hbVars, reports>>
    /\ UNCHANGED toolVars

\* finally: stop_event.set() -- a heartbeat blocked in stop_event.wait
\* returns True and its loop ends
Finally ==
    /\ pc = "finally"
    /\ stop' = [stop EXCEPT ![cur] = TRUE]
    /\ hbpc' = [hbpc EXCEPT ![cur] = IF hbpc[cur] = "wait" THEN "done" ELSE hbpc[cur]]
    /\ pc' = "join"
    /\ UNCHANGED <<jobVars, loopVars, exc, scratch, progress, hbval, beats,
                   lock, inflight, log, reports>>
    /\ UNCHANGED toolVars

\* heartbeat.join(timeout=1) returns, the thread finished or not;
\* _process_job returns to run() and its locals (the progress cell, which no
\* heartbeat reads once the stop event is set) go out of scope
Join ==
    /\ pc = "join"
    /\ log' = Append(log, Ev("return", cur))
    /\ pc' = "claim"
    /\ progress' = [progress EXCEPT ![cur] = 0]
    /\ UNCHANGED <<jobVars, loopVars, exc, scratch, stop, hbpc, hbval, beats, lock,
                   inflight, reports>>
    /\ UNCHANGED toolVars

\* ---------------------------------------------------------------- _heartbeat
\* stop_event.wait(interval) times out and returns False; the argument
\* progress["value"] of the next _report is read
HbWake(j) ==
    /\ hbpc[j] = "wait"
    /\ ~stop[j]
    /\ beats < MaxBeats
    /\ hbval' = [hbval EXCEPT ![j] = progress[j]]
    /\ beats' = beats + 1
    /\ hbpc' = [hbpc EXCEPT ![j] = "read"]
    /\ UNCHANGED <<pc, jobVars, loopVars, exc, scratch, progress, stop,
                   lock, inflight, log, reports>>
    /\ UNCHANGED toolVars

\* _process_job has returned for job j
Returned(j) == j < cur \/ (j = cur /\ pc \in {"claim", "sleep", "crashed"})

\* self._report(job_id, progress["value"]) takes the lock and issues the call;
\* the entry notes whether _process_job had already returned for the job
HbSend(j) ==
    /\ hbpc[j] = "read"
    /\ Issue(Hb(j))
    /\ reports' = IF j = cur THEN Append(reports, Rep("hb", j, hbval[j], Returned(j)))
                  ELSE reports
    /\ hbpc' = [hbpc EXCEPT ![j] = "rpc"]
    /\ hbval' = [hbval EXCEPT ![j] = 0]
    /\ UNCHANGED <<pc, jobVars, loopVars, exc, scratch, progress, stop, beats, log>>
    /\ UNCHANGED toolVars

\* the call returns and the loop goes back to stop_event.wait, or it raises
\* and the thread ends with the uncaught exception
HbRecv(j) ==
    /\ hbpc[j] = "rpc"
    /\ Release(Hb(j))
    /\ \E resp \in HttpResponses("report", j) :
         LET r == Call(resp) IN
         /\ reports' = IF j = cur THEN Answered(reports, r) ELSE reports
         /\ hbpc' = [hbpc EXCEPT ![j] =
                        IF r.cls # "none" THEN "dead"
                        ELSE IF stop[j] THEN "done" ELSE "wait"]
    /\ UNCHANGED <<pc, jobVars, loopVars, exc, scratch, progress, stop, hbval,
                   beats, log>>
    /\ UNCHANGED toolVars

\* ---------------------------------------------------------------- Next
Next ==
    \/ ClaimSend
    \/ ClaimRecv
    \/ Sleep
    \/ StartHeartbeat
    \/ ReportSend
    \/ ReportRecv
    \/ DownloadUrlSend
    \/ DownloadUrlRecv
    \/ DownloadBlob
    \/ DownloadsDone
    \/ RunTool
    \/ UploadUrlSend
    \/ UploadUrlRecv
    \/ UploadBlob
    \/ UploadsDone
    \/ CompleteSend
    \/ CompleteRecv
    \/ FailSend
    \/ FailRecv
    \/ Finally
    \/ Join
    \/ \E j \in Jobs : HbWake(j)
    \/ \E j \in Jobs : HbSend(j)
    \/ \E j \in Jobs : HbRecv(j)

Spec == Init /\ [][Next]_vars

\* ---------------------------------------------------------------- types
TypeOK ==
    /\ pc \in {"claim", "sleep", "crashed", "start", "handler", "finally", "join",
               "complete"} \cup ReportPcs \cup InWith
    /\ cur \in 0..MaxJobs
    /\ dlIdx \in 0..MaxInputs
    /\ ulIdx \in 0..NumOutputs
    /\ scratch = (pc \in InWith)

\* ---------------------------------------------------------------- properties
LogIdx == 1..Len(log)
RepIdx == 1..Len(reports)

\* _process_job has returned for the job the log is about
JobReturned == \E i \in LogIdx : log[i].op = "return"

CompleteAccepted == \E i \in LogIdx : log[i].op = "complete" /\ log[i].res = "ok"

FailIssued == \E i \in LogIdx : log[i].op = "fail"

\* C1: once completeJob has returned successfully for a job, no failJob is
\* issued for that job.
C1_NoFailAfterComplete ==
    \A i, k \in LogIdx :
        (i < k /\ log[i].op = "complete" /\ log[i].res = "ok") => log[k].op # "fail"

\* C2: for every claimed job whose processing has terminated the queue
\* observes exactly one terminal event, one completeJob or one failJob.
C2_ExactlyOneTerminal ==
    JobReturned =>
        Cardinality({i \in LogIdx : /\ log[i].op \in {"complete", "fail"}
                                    /\ log[i].res = "ok"}) = 1

\* the progress values the queue has observed for the current job
Observed == SelectSeq(reports, LAMBDA e : e.job = cur /\ e.res = "ok")

NonDecreasing(q) == \A i, k \in 1..Len(q) : i < k => q[i].prog <= q[k].prog

SuccessfulJob == JobReturned /\ CompleteAccepted /\ ~FailIssued

\* C3: for every successful job the progress values the queue observes are
\* monotonically non-decreasing and the last one is 100.
C3_ProgressMonotone ==
    SuccessfulJob =>
        /\ NonDecreasing(Observed)
        /\ Len(Observed) > 0
        /\ Observed[Len(Observed)].prog = 100

\* a heartbeat had been rejected for the lapsed lease before the main thread
\* issued its terminal call
LapsedBeforeTerminal ==
    \E i \in LogIdx : log[i].op \in {"complete", "fail"} /\ log[i].hbLapsed

\* C4: when a heartbeat reportJobProgress is rejected because the lease lapsed,
\* the job is failed with SERVICE_CAPACITY_TEMPORARY and is not completed.
C4_LapseFailsTransient ==
    (JobReturned /\ LapsedBeforeTerminal) =>
        /\ \E i \in LogIdx : log[i].op = "fail" /\ log[i].code = "SERVICE_CAPACITY_TEMPORARY"
        /\ ~CompleteAccepted

\* C5: at most one queue RPC is in flight at any moment, and the thread whose
\* call is in flight holds the client lock.
C5_OneInFlight ==
    /\ Cardinality(inflight) <= 1
    /\ \A t \in inflight : lock = t

\* a heartbeat's call is in flight while the main thread is about to issue
\* completeJob
C5_Witness ==
    \E j \in Jobs : Hb(j) \in inflight /\ pc = "complete" /\ Main \notin inflight

\* C6: a ValueError-class error is reported with USER_INPUT_INVALID and the
\* exception text as errorMessage; every other error is reported with
\* SERVICE_CAPACITY_TEMPORARY and the generic message, its text only logged.
C6_Classification ==
    \A i \in LogIdx :
        log[i].op = "fail" =>
            IF IsValueError(log[i].cls)
            THEN /\ log[i].code = "USER_INPUT_INVALID"
                 /\ log[i].msg = log[i].text
            ELSE /\ log[i].code = "SERVICE_CAPACITY_TEMPORARY"
                 /\ log[i].msg = GenericMessage
                 /\ log[i].text # "" => log[i].logged = log[i].text

\* a tool's ValueError has been reported and the report was accepted
C6_Witness ==
    \E i \in LogIdx :
        /\ log[i].op = "fail"
        /\ log[i].cls = "ValueError"
        /\ log[i].src = "tool"
        /\ log[i].res = "ok"

\* C7: every failure of a queue RPC or of a blob transfer is reported as
\* SERVICE_CAPACITY_TEMPORARY, never as USER_INPUT_INVALID.
C7_InfraFailuresTransient ==
    \A i \in LogIdx :
        (log[i].op = "fail" /\ log[i].src \in {"rpc", "blob"}) =>
            log[i].code = "SERVICE_CAPACITY_TEMPORARY"

InfraOps == {"report", "getDownloadUrl", "download", "generateUploadUrl",
             "upload", "complete"}

\* C8: for the compress tool, when the pipeline returns without raising (and
\* no RPC or blob transfer fails) the final file is uploaded and completeJob
\* is issued.
C8_CompressCompletes ==
    ( /\ JobReturned
      /\ tool = "compress"
      /\ \E i \in LogIdx : log[i].op = "tool" /\ log[i].res = "ok"
      /\ \A i \in LogIdx : log[i].op \in InfraOps => log[i].res = "ok" )
    => /\ \E i \in LogIdx : log[i].op = "upload" /\ log[i].res = "ok"
       /\ \E i \in LogIdx : log[i].op = "complete"

Pairs(a, b, n) == [i \in 1..(2 * n) |-> IF i % 2 = 1 THEN <<a, 0>> ELSE <<b, 0>>]

ExpectedTrace(n) ==
    <<  <<"hbStart", 0>>, <<"report", 10>>  >>
    \o Pairs("getDownloadUrl", "download", n)
    \o <<  <<"report", 40>>, <<"tool", 0>>, <<"report", 75>>  >>
    \o Pairs("generateUploadUrl", "upload", NumOutputs)
    \o <<  <<"complete", 0>>, <<"report", 100>>, <<"return", 0>>  >>

MainTrace == [i \in LogIdx |-> <<log[i].op, log[i].prog>>]

NoFailure == \A i \in LogIdx : log[i].res # "error" /\ log[i].op # "fail"

IsPrefix(a, b) == Len(a) <= Len(b) /\ \A i \in 1..Len(a) : a[i] = b[i]

\* C9: in a job with no failure the main thread's events occur in the order
\* heartbeat start, report 10, the downloads, report 40, the tool run,
\* report 75, the uploads, completeJob, report 100.
C9_MainOrder ==
    NoFailure =>
        /\ IsPrefix(MainTrace, ExpectedTrace(nInputs))
        /\ JobReturned => MainTrace = ExpectedTrace(nInputs)

\* a job with an input went through without a failure
C9_Witness == NoFailure /\ JobReturned /\ nInputs > 0

\* C10: after _process_job has returned for a job, no further
\* reportJobProgress is issued for that job.
C10_NoLateReport == \A i \in RepIdx : ~reports[i].late

\* the failJob call of the current job raised
FailJobRaised == \E i \in LogIdx : log[i].op = "fail" /\ log[i].res = "error"

\* C11: when the failJob RPC raises, _process_job still returns normally and
\* run() goes on to the next claimNextJob: the main thread is in the finally
\* clause, or has returned from _process_job and is back in the loop of run().
C11_SafeFailKeepsLoop ==
    FailJobRaised =>
        \/ pc \in {"finally", "join"}
        \/ JobReturned /\ pc \in {"claim", "sleep", "crashed"}

\* failJob raised, _process_job returned and the next claimNextJob is in flight
C11_Witness == FailJobRaised /\ JobReturned /\ pc = "claim" /\ Main \in inflight

\* C12: while a terminal RPC is prepared or in flight, and from then on until
\* _process_job has returned, the scratch directory of the job does not exist.
C12_ScratchRemoved ==
    (cur > 0 /\ (pc \in {"complete", "r100", "handler", "finally", "join"} \/ Returned(cur)))
        => ~scratch

\* failJob is in flight for a job whose tool run raised inside the with block
C12_Witness ==
    /\ pc = "handler"
    /\ Main \in inflight
    /\ exc.src = "tool"
    /\ \E i \in LogIdx : log[i].op = "download" /\ log[i].res = "ok"

\* ---------------------------------------------------------------- compress_pdf
\* size_bytes of the input, ZENPDF_COMPRESS_MIN_SAVINGS_BYTES and the savings
\* threshold in percent, in units that keep the sizes small
OrigSize == 10
MinSavingsBytes == 2
ThresholdPct == 8

\* the sizes a command's valid output can have: a real saving, a saving
\* below the threshold, larger than the input
Sizes == {5, 9, 12}

\* _run_cmd: exit code 0, a non-zero exit code with stderr, or TimeoutExpired
CmdResults ==
    {[ok |-> FALSE, timeout |-> FALSE, stderr |-> "stderr"]}
    \cup (IF touts < MaxTimeouts
          THEN {[ok |-> FALSE, timeout |-> TRUE, stderr |-> ""]} ELSE {})
    \cup (IF oks < MaxOk
          THEN {[ok |-> TRUE, timeout |-> FALSE, stderr |-> ""]} ELSE {})

\* what the command left at dest
Written(r, dest) ==
    IF r.ok
    THEN {[st |-> "valid", size |-> sz, data |-> dest] : sz \in Sizes}
         \cup {[st |-> "invalid", size |-> OrigSize, data |-> dest]}
    ELSE {[st |-> "failed", size |-> 0, data |-> dest]}

Spend(r) ==
    /\ oks' = IF r.ok THEN oks + 1 ELSE oks
    /\ touts' = IF r.timeout THEN touts + 1 ELSE touts

\* _make_step_entry(name, None, notes)
SkippedStep(name, notes) == [name |-> name, ok |-> FALSE, notes |-> notes]

\* _make_step_entry without the branch for result["timeout"]
MakeStepEntryNoTimeout(name, result, notes) ==
    [name |-> name, ok |-> result.ok,
     notes |-> IF notes # "" THEN notes
               ELSE IF ~result.ok /\ result.stderr # "" THEN result.stderr
               ELSE ""]

\* _make_step_entry(name, result, notes): an entry without a notes key is
\* written with notes ""
MakeStepEntry(name, result, notes) ==
    [name |-> name, ok |-> result.ok,
     notes |-> IF notes # "" THEN notes
               ELSE IF result.timeout THEN "timeout"
               ELSE IF ~result.ok /\ result.stderr # "" THEN result.stderr
               ELSE ""]

\* _validate_candidate accepting every file that exists
ValidateCandidateExistsOnly(f) == f.st \in {"valid", "invalid", "unreadable"}

\* _validate_candidate(path, expected_pages)
ValidateCandidate(f) == f.st = "valid"

\* _add_candidate: the candidates list afterwards
AddCandidate(c, f, path, meth, label) ==
    IF ValidateCandidate(f)
    THEN Append(c, [path |-> path, method |-> meth, label |-> label, size |-> f.size])
    ELSE c

\* _add_candidate: the warnings list afterwards
AddWarning(w, f, label) ==
    IF ValidateCandidate(f) THEN w ELSE Append(w, label \o " output invalid")

\* result = _run_cmd(cmd, ...); _record_step(name, result); temp_paths.append(dest)
RunStage(name, dest, r, f) ==
    /\ Spend(r)
    /\ files' = [files EXCEPT ![dest] = f]
    /\ steps' = Append(steps, MakeStepEntry(name, r, ""))
    /\ tempPaths' = Append(tempPaths, dest)

\* if result["ok"]: _add_candidate(dest, method, label, expected_pages)
AddIfOk(r, f, dest, meth, label) ==
    /\ candidates' = IF r.ok THEN AddCandidate(candidates, f, dest, meth, label)
                     ELSE candidates
    /\ warnings' = IF r.ok THEN AddWarning(warnings, f, label) ELSE warnings

\* a call of compress_pdf on an input file that exists
CompressStart ==
    /\ WorkerInit
    /\ WebIdle
    /\ CallIdle
    /\ cpc = "preflight"
    /\ \E st \in {"valid", "invalid", "unreadable"} :
         files = [p \in Paths |->
                    IF p = "input" THEN [st |-> st, size |-> OrigSize, data |-> "input"]
                    ELSE NoFile]
    /\ CompressLocals

\* the call where any binaries are installed
InitStages == CompressStart /\ cfg = CfgUnread

\* the call on an input that passes validation where any lanes are enabled
InitLanes ==
    /\ CompressStart
    /\ files["input"].st = "valid"
    /\ cfg = [CfgUnread EXCEPT !.deploy = "lanes"]

\* the call in a plain deployment
InitCompress == CompressStart /\ cfg = [CfgUnread EXCEPT !.deploy = "plain"]

\* shutil.which(binary)
Which(binary) ==
    IF \/ cfg.deploy = "binaries"
       \/ cfg.deploy = "lanes" /\ binary # "mutool"
       \/ cfg.deploy = "plain" /\ binary = "qpdf"
    THEN BOOLEAN ELSE {FALSE}

\* _env_bool(name, False) of a lane flag
LaneFlag == IF cfg.deploy = "lanes" THEN BOOLEAN ELSE {FALSE}

\* max(1, _env_int("ZENPDF_COMPRESS_PARALLELISM", 1))
Parallelisms == IF cfg.deploy = "lanes" THEN 1..MaxParallelism ELSE {1}

\* _load_pdf(input_path, allow_encrypted=False): an encrypted input is
\* rejected, any other read failure is a warning
Preflight ==
    /\ cpc = "preflight"
    /\ \E encrypted \in BOOLEAN :
         IF encrypted
         THEN /\ raised' = "PDF is encrypted"
              /\ cpc' = "raised"
              /\ warnings' = warnings
         ELSE /\ raised' = raised
              /\ cpc' = "original"
              /\ warnings' = IF files["input"].st # "unreadable" THEN warnings
                             ELSE Append(warnings, "preflight read failed")
    /\ UNCHANGED <<workerVars, webVars, callVars, cfg, files, budgetVars, steps, candidates, tempPaths,
                   pathVars, laneVars, selVars>>

\* mutool = shutil.which("mutool"); qpdf = shutil.which("qpdf");
\* if _validate_candidate(input_path, ...): _add_candidate(input_path, "original", ...)
Original ==
    /\ cpc = "original"
    /\ \E m \in Which("mutool"), q \in Which("qpdf") :
         cfg' = [cfg EXCEPT !.mutool = m, !.qpdf = q]
    /\ candidates' = IF ValidateCandidate(files["input"])
                     THEN AddCandidate(candidates, files["input"], "input", "original", "original")
                     ELSE candidates
    /\ warnings' = IF ValidateCandidate(files["input"])
                   THEN AddWarning(warnings, files["input"], "original")
                   ELSE warnings
    /\ cpc' = "normMutool"
    /\ UNCHANGED <<workerVars, webVars, callVars, files, budgetVars, steps, tempPaths, pathVars, laneVars,
                   selVars, raised>>

\* normalized_path is set to the mutool output after the run succeeded
NormalizedAfterMutoolOnSuccess(r) == IF r.ok THEN "normalized" ELSE "input"

\* normalized_path = _tmp_path("normalized.pdf") is assigned before the run
NormalizedAfterMutool(r) == "normalized"

\* if mutool: mutool clean ... else: step "skipped"
NormMutool ==
    /\ cpc = "normMutool"
    /\ IF cfg.mutool
       THEN \E r \in CmdResults : \E f \in Written(r, "normalized") :
              /\ RunStage("normalize_mutool", "normalized", r, f)
              /\ AddIfOk(r, f, "normalized", "mutool", "normalize")
              /\ normalizedPath' = NormalizedAfterMutool(r)
              /\ basePath' = IF r.ok THEN "normalized" ELSE basePath
              /\ gsInputPath' = IF r.ok THEN "normalized" ELSE gsInputPath
       ELSE /\ steps' = Append(steps, SkippedStep("normalize_mutool",
                                                  "skipped: mutool not available"))
            /\ UNCHANGED <<files, budgetVars, warnings, candidates, tempPaths, pathVars>>
    /\ cpc' = "normQpdf"
    /\ UNCHANGED <<workerVars, webVars, callVars, cfg, laneVars, selVars, raised>>

\* if normalized_path == input_path: if qpdf: qpdf normalization
NormQpdf ==
    /\ cpc = "normQpdf"
    /\ IF normalizedPath = "input" /\ cfg.qpdf
       THEN \E r \in CmdResults : \E f \in Written(r, "qpdf_norm") :
              /\ RunStage("normalize_qpdf", "qpdf_norm", r, f)
              /\ AddIfOk(r, f, "qpdf_norm", "qpdf", "normalize")
              /\ normalizedPath' = IF r.ok THEN "qpdf_norm" ELSE normalizedPath
              /\ basePath' = IF r.ok THEN "qpdf_norm" ELSE basePath
              /\ gsInputPath' = IF r.ok THEN "qpdf_norm" ELSE gsInputPath
       ELSE /\ steps' = IF normalizedPath = "input"
                        THEN Append(steps, SkippedStep("normalize_qpdf",
                                                       "skipped: qpdf not available"))
                        ELSE steps
            /\ UNCHANGED <<files, budgetVars, warnings, candidates, tempPaths, pathVars>>
    /\ cpc' = "normPypdf"
    /\ UNCHANGED <<workerVars, webVars, callVars, cfg, laneVars, selVars, raised>>

\* if normalized_path == input_path: _rewrite_pdf(input_path, rewrite_path)
NormPypdf ==
    /\ cpc = "normPypdf"
    /\ IF normalizedPath = "input"
       THEN \E ok \in IF oks < MaxOk THEN BOOLEAN ELSE {FALSE} :
            LET r == [ok |-> ok, timeout |-> FALSE,
                      stderr |-> IF ok THEN "" ELSE "rewrite failed"] IN
            \E f \in Written(r, "rewrite") :
              /\ Spend(r)
              /\ files' = [files EXCEPT !["rewrite"] = f]
              /\ steps' = Append(steps, MakeStepEntry("normalize_pypdf", r, ""))
              /\ tempPaths' = Append(tempPaths, "rewrite")
              /\ candidates' = IF ok THEN AddCandidate(candidates, f, "rewrite", "pypdf", "normalize")
                               ELSE candidates
              /\ warnings' = IF ok THEN AddWarning(warnings, f, "normalize")
                             ELSE Append(warnings, "pypdf rewrite failed")
              /\ normalizedPath' = IF ok THEN "rewrite" ELSE normalizedPath
              /\ basePath' = IF ok THEN "rewrite" ELSE basePath
              /\ gsInputPath' = IF ok THEN "rewrite" ELSE gsInputPath
       ELSE UNCHANGED <<files, budgetVars, listVars, pathVars>>
    /\ cpc' = "optQpdf"
    /\ UNCHANGED <<workerVars, webVars, callVars, cfg, laneVars, selVars, raised>>

\* if qpdf: qpdf on base_path into optimized.pdf
OptQpdf ==
    /\ cpc = "optQpdf"
    /\ IF cfg.qpdf
       THEN \E r \in CmdResults : \E f \in Written(r, "optimized") :
              /\ RunStage("optimize_qpdf", "optimized", r, f)
              /\ AddIfOk(r, f, "optimized", "qpdf", "optimize")
              /\ basePath' = IF r.ok THEN "optimized" ELSE basePath
              /\ gsInputPath' = IF r.ok THEN "optimized" ELSE gsInputPath
       ELSE /\ steps' = Append(steps, SkippedStep("optimize_qpdf",
                                                  "skipped: qpdf not available"))
            /\ UNCHANGED <<files, budgetVars, warnings, candidates, tempPaths,
                           basePath, gsInputPath>>
    /\ cpc' = "optMutool"
    /\ UNCHANGED <<workerVars, webVars, callVars, cfg, normalizedPath, laneVars, selVars, raised>>

\* if mutool: mutool merge -O compress on base_path into mutool_opt.pdf
OptMutool ==
    /\ cpc = "optMutool"
    /\ IF cfg.mutool
       THEN \E r \in CmdResults : \E f \in Written(r, "mutool_opt") :
              /\ RunStage("optimize_mutool", "mutool_opt", r, f)
              /\ AddIfOk(r, f, "mutool_opt", "mutool", "mutool_opt")
       ELSE /\ steps' = Append(steps, SkippedStep("optimize_mutool",
                                                  "skipped: mutool not available"))
            /\ UNCHANGED <<files, budgetVars, warnings, candidates, tempPaths>>
    /\ cpc' = "gsEarly"
    /\ UNCHANGED <<workerVars, webVars, callVars, cfg, pathVars, laneVars, selVars, raised>>

\* ghostscript = shutil.which("gs"); without Ghostscript neither image_heavy
\* nor size_mb is looked at;
\* if image_heavy and ghostscript and size_mb >= gs_min_size_mb: _run_gs_basic
GsEarly ==
    /\ cpc = "gsEarly"
    /\ \E g \in Which("gs") :
       \E heavy, big \in IF g THEN BOOLEAN ELSE {FALSE} :
         /\ cfg' = [cfg EXCEPT !.gs = g, !.imageHeavy = heavy, !.sizeBig = big]
         /\ IF heavy /\ g /\ big
            THEN \E r \in CmdResults : \E f \in Written(r, "gs_early") :
                   /\ RunStage("ghostscript_early", "gs_early", r, f)
                   /\ AddIfOk(r, f, "gs_early", "ghostscript", "ghostscript_early")
                   /\ cpc' = IF r.ok /\ cfg.qpdf THEN "qpdfAfterGs" ELSE "lanes"
            ELSE /\ cpc' = "lanes"
                 /\ UNCHANGED <<files, budgetVars, listVars>>
    /\ UNCHANGED <<workerVars, webVars, callVars, pathVars, laneVars, selVars, raised>>

\* if result["ok"]: ... if qpdf: qpdf on gs_output into gs_qpdf.pdf
QpdfAfterGs ==
    /\ cpc = "qpdfAfterGs"
    /\ \E r \in CmdResults : \E f \in Written(r, "gs_qpdf") :
         /\ RunStage("qpdf_after_gs", "gs_qpdf", r, f)
         /\ AddIfOk(r, f, "gs_qpdf", "qpdf_after_gs", "qpdf_after_gs")
    /\ cpc' = "lanes"
    /\ UNCHANGED <<workerVars, webVars, callVars, cfg, pathVars, laneVars, selVars, raised>>

\* ---------------------------------------------------------------- heavy lanes
\* max(size_bytes - size, 0)
Savings(sz) == IF OrigSize > sz THEN OrigSize - sz ELSE 0

\* savings_bytes < min_savings_bytes or savings_pct < savings_threshold
BelowThreshold(sv) == sv < MinSavingsBytes \/ sv * 100 < ThresholdPct * OrigSize

\* max(candidates, key=size)
BestOfLargest(c) ==
    c[CHOOSE i \in 1..Len(c) :
        /\ \A k \in 1..Len(c) : c[i].size >= c[k].size
        /\ \A k \in 1..(i - 1) : c[k].size < c[i].size]

\* min(candidates, key=lambda item: item["size"]): the first of the smallest
BestOf(c) ==
    c[CHOOSE i \in 1..Len(c) :
        /\ \A k \in 1..Len(c) : c[i].size <= c[k].size
        /\ \A k \in 1..(i - 1) : c[k].size > c[i].size]

\* _should_run_heavy_steps() with _current_best_savings()
ShouldRunHeavy(c) ==
    IF c = <<>> THEN BelowThreshold(0) ELSE BelowThreshold(Savings(BestOf(c).size))

\* task_specs built from the flags
TaskSpecs(io, ps, g) ==
    (IF io THEN <<"image_opt">> ELSE <<>>)
    \o (IF ps THEN <<"pdfsizeopt">> ELSE <<>>)
    \o (IF g THEN <<"ghostscript">> ELSE <<>>)

InSpecs(l) == \E i \in 1..Len(taskSpecs) : taskSpecs[i] = l

IndexOf(l) == CHOOSE i \in 1..Len(taskSpecs) : taskSpecs[i] = l

\* parallelism > 1 and len(task_specs) > 1
Parallel == cfg.parallelism > 1 /\ Len(taskSpecs) > 1

\* max_workers = min(parallelism, len(task_specs))
MaxWorkers == IF cfg.parallelism < Len(taskSpecs) THEN cfg.parallelism ELSE Len(taskSpecs)

Active == {l \in Lanes : lanePc[l] \in {"running", "probed", "retry"}}

\* should_run_heavy = ...; task_specs = ...; the executor is created or the
\* sequential loop entered.  ZENPDF_COMPRESS_ENABLE_JBIG2 is at its default.
\* With fewer than two lanes every value of parallelism runs the same code.
LanesSetup ==
    /\ cpc = "lanes"
    /\ \E io, ps \in LaneFlag :
       \E pso \in IF ps THEN Which("pdfsizeopt") ELSE {FALSE} :
         LET specs == TaskSpecs(io, ps, cfg.gs) IN
         \E par \in IF Len(specs) > 1 THEN Parallelisms ELSE {1} :
           /\ cfg' = [cfg EXCEPT !.enableImageOpt = io, !.enablePdfsizeopt = ps,
                                 !.pdfsizeopt = ps /\ pso, !.parallelism = par]
           /\ taskSpecs' = specs
           /\ lanePc' = [l \in Lanes |->
                           IF \E i \in 1..Len(specs) : specs[i] = l THEN "queued" ELSE "off"]
    /\ shouldRun' = ShouldRunHeavy(candidates)
    /\ cpc' = "tasks"
    /\ UNCHANGED <<workerVars, webVars, callVars, files, budgetVars, listVars, pathVars, taskResults,
                   laneOut, selVars, raised>>

\* a pool worker takes the next submitted task; the sequential loop calls
\* the next task once the one before has returned
LaneStart(l) ==
    /\ cpc = "tasks"
    /\ lanePc[l] = "queued"
    /\ IF Parallel
       THEN /\ \A k \in Lanes : (InSpecs(k) /\ IndexOf(k) < IndexOf(l)) => lanePc[k] # "queued"
            /\ Cardinality(Active) < MaxWorkers
       ELSE \A k \in Lanes : (InSpecs(k) /\ IndexOf(k) < IndexOf(l)) => lanePc[k] = "collected"
    /\ lanePc' = [lanePc EXCEPT ![l] = "running"]
    /\ UNCHANGED <<workerVars, webVars, callVars, cpc, cfg, files, budgetVars, listVars, pathVars, shouldRun,
                   taskSpecs, taskResults, laneOut, selVars, raised>>

\* what a lane task does with the step entry of one command when it records
\* it with _record_step, as _run_gs_basic does
LaneStepShared(l, entry) ==
    /\ steps' = Append(steps, entry)
    /\ laneOut' = laneOut

\* outcome["steps"].append(_make_step_entry(...)): the task's own bundle
LaneStep(l, entry) ==
    /\ laneOut' = [laneOut EXCEPT ![l].steps = Append(@, entry)]
    /\ steps' = steps

\* the task goes on to position p; when it returns, its bundle is stored:
\* task_results[name] = future.result() as the futures complete, or
\* task_results[name] = task() in the sequential loop
LaneMoves(l, p) ==
    /\ lanePc' = [lanePc EXCEPT ![l] = p]
    /\ taskResults' = IF p = "collected" THEN Append(taskResults, <<l, laneOut'[l]>>)
                      ELSE taskResults

LaneCand(path, meth, label) == [path |-> path, method |-> meth, label |-> label]

\* _run_image_opt_task
LaneImageOpt ==
    /\ cpc = "tasks"
    /\ lanePc["image_opt"] = "running"
    /\ IF ~cfg.qpdf
       THEN /\ LaneStep("image_opt", SkippedStep("optimize_images_qpdf",
                                                 "skipped: qpdf not available"))
            /\ UNCHANGED <<files, budgetVars>>
       ELSE \E r \in CmdResults : \E f \in Written(r, "image_opt") :
              /\ Spend(r)
              /\ files' = [files EXCEPT !["image_opt"] = f]
              /\ steps' = steps
              /\ laneOut' = [laneOut EXCEPT
                   !["image_opt"].tempPaths = Append(@, "image_opt"),
                   !["image_opt"].steps =
                       Append(@, MakeStepEntry("optimize_images_qpdf", r, "")),
                   !["image_opt"].candidates =
                       IF r.ok THEN Append(@, LaneCand("image_opt", "qpdf_optimize_images",
                                                       "image_opt"))
                       ELSE @]
    /\ LaneMoves("image_opt", "collected")
    /\ UNCHANGED <<workerVars, webVars, callVars, cpc, cfg, warnings, candidates, tempPaths, pathVars,
                   shouldRun, taskSpecs, selVars, raised>>

\* _run_pdfsizeopt_task(should_run_heavy)
LanePdfsizeopt ==
    /\ cpc = "tasks"
    /\ lanePc["pdfsizeopt"] = "running"
    /\ IF ~cfg.pdfsizeopt
       THEN /\ LaneStep("pdfsizeopt", SkippedStep("optimize_pdfsizeopt",
                                                  "skipped: pdfsizeopt not available"))
            /\ UNCHANGED <<files, budgetVars>>
       ELSE IF ~shouldRun
       THEN /\ LaneStep("pdfsizeopt", SkippedStep("optimize_pdfsizeopt",
                                                  "skipped: already reduced"))
            /\ UNCHANGED <<files, budgetVars>>
       ELSE \E r \in CmdResults : \E f \in Written(r, "pdfsizeopt") :
              /\ Spend(r)
              /\ files' = [files EXCEPT !["pdfsizeopt"] = f]
              /\ steps' = steps
              /\ laneOut' = [laneOut EXCEPT
                   !["pdfsizeopt"].tempPaths = Append(@, "pdfsizeopt"),
                   !["pdfsizeopt"].steps =
                       Append(@, MakeStepEntry("optimize_pdfsizeopt", r, "")),
                   !["pdfsizeopt"].candidates =
                       IF r.ok THEN Append(@, LaneCand("pdfsizeopt", "pdfsizeopt", "pdfsizeopt"))
                       ELSE @]
    /\ LaneMoves("pdfsizeopt", "collected")
    /\ UNCHANGED <<workerVars, webVars, callVars, cpc, cfg, warnings, candidates, tempPaths, pathVars,
                   shouldRun, taskSpecs, selVars, raised>>

\* the reason _run_ghostscript_task skips the lane, "" when it runs
GsSkip ==
    IF cfg.imageHeavy THEN "skipped: image-heavy handled"
    ELSE IF ~cfg.gs THEN "skipped: ghostscript not available"
    ELSE IF ~cfg.sizeBig THEN "skipped: below size threshold"
    ELSE IF ~shouldRun THEN "skipped: already reduced"
    ELSE ""

\* the probe run writes the first probe_pages pages only
ProbeWritten(r) ==
    [st |-> IF r.ok THEN "invalid" ELSE "failed", size |-> 0, data |-> "gs_probe"]

\* the environment of the probe: ZENPDF_COMPRESS_TIMEOUT_SECONDS=1,
\* ZENPDF_COMPRESS_TIMEOUT_PROBE_PAGES=2 and an input of 3 pages
TimeoutSeconds == 1

ProbePages == 2

ExpectedPages == 3

\* the milliseconds a successful probe can take: the extrapolation is 900,
\* 1000.5 or 1050 ms
ProbeMs == {600, 667, 700}

\* int((probe_result["ms"] / probe_pages) * expected_pages)
EstimatedMs(ms) == (ms * ExpectedPages) \div ProbePages

\* estimated_ms > timeout_seconds * 1000
ProbeTooSlow(ms) == EstimatedMs(ms) > TimeoutSeconds * 1000

\* the full run is started whatever the probe said
ProbeOkIgnored(r, slow) == TRUE

\* probe_ok: the probe succeeded and its extrapolated time is within the timeout
ProbeOk(r, slow) == r.ok /\ ~slow

\* _run_ghostscript_task up to the probe; the probe's step entry keeps its ms
LaneGsProbe ==
    /\ cpc = "tasks"
    /\ lanePc["ghostscript"] = "running"
    /\ IF GsSkip # ""
       THEN /\ LaneStep("ghostscript", SkippedStep("ghostscript_full", GsSkip))
            /\ LaneMoves("ghostscript", "collected")
            /\ UNCHANGED <<files, budgetVars>>
       ELSE \E r \in CmdResults :
            \E ms \in IF r.ok THEN ProbeMs ELSE {0} :
              LET slow == r.ok /\ ProbeTooSlow(ms)
                  probed == [ms |-> ms] @@
                            MakeStepEntry("ghostscript_probe", r,
                               IF slow THEN "probe too slow, skipping full run" ELSE "")
              IN
              /\ Spend(r)
              /\ files' = [files EXCEPT !["gs_probe"] = ProbeWritten(r)]
              /\ steps' = steps
              /\ laneOut' = [laneOut EXCEPT
                   !["ghostscript"].tempPaths = @ \o <<"gs_probe", "gs">>,
                   !["ghostscript"].steps =
                       IF ProbeOk(r, slow) THEN Append(@, probed)
                       ELSE Append(Append(@, probed),
                                   SkippedStep("ghostscript_full", "skipped: probe failed"))]
              /\ LaneMoves("ghostscript", IF ProbeOk(r, slow) THEN "probed" ELSE "collected")
    /\ UNCHANGED <<workerVars, webVars, callVars, cpc, cfg, warnings, candidates, tempPaths, pathVars,
                   shouldRun, taskSpecs, selVars, raised>>

\* if probe_ok: the full run
LaneGsFull ==
    /\ cpc = "tasks"
    /\ lanePc["ghostscript"] = "probed"
    /\ \E r \in CmdResults : \E f \in Written(r, "gs") :
         /\ Spend(r)
         /\ files' = [files EXCEPT !["gs"] = f]
         /\ steps' = steps
         /\ laneOut' = [laneOut EXCEPT
              !["ghostscript"].steps = Append(@, MakeStepEntry("ghostscript_full", r, "")),
              !["ghostscript"].candidates =
                  IF r.ok THEN Append(@, LaneCand("gs", "ghostscript", "ghostscript")) ELSE @]
         /\ LaneMoves("ghostscript", IF r.ok THEN "collected" ELSE "retry")
    /\ UNCHANGED <<workerVars, webVars, callVars, cpc, cfg, warnings, candidates, tempPaths, pathVars,
                   shouldRun, taskSpecs, selVars, raised>>

\* else: the retry with -dNEWPDF=false
LaneGsRetry ==
    /\ cpc = "tasks"
    /\ lanePc["ghostscript"] = "retry"
    /\ \E r \in CmdResults : \E f \in Written(r, "gs") :
         /\ Spend(r)
         /\ files' = [files EXCEPT !["gs"] = f]
         /\ steps' = steps
         /\ laneOut' = [laneOut EXCEPT
              !["ghostscript"].steps = Append(@, MakeStepEntry("ghostscript_retry", r, "")),
              !["ghostscript"].candidates =
                  IF r.ok THEN Append(@, LaneCand("gs", "ghostscript", "ghostscript_retry"))
                  ELSE @]
    /\ LaneMoves("ghostscript", "collected")
    /\ UNCHANGED <<workerVars, webVars, callVars, cpc, cfg, warnings, candidates, tempPaths, pathVars,
                   shouldRun, taskSpecs, selVars, raised>>

\* the bundles merged in the order the tasks finished
MergeOrderCompletion == [i \in 1..Len(taskResults) |-> taskResults[i][1]]

\* for name, _ in task_specs
MergeOrder == taskSpecs

\* task_results.get(name, _empty_outcome())
ResultOf(name) ==
    IF \E i \in 1..Len(taskResults) : taskResults[i][1] = name
    THEN taskResults[CHOOSE i \in 1..Len(taskResults) : taskResults[i][1] = name][2]
    ELSE EmptyOutcome

RECURSIVE AddAll(_, _)
\* for path, method, label in outcome["candidates"]: _add_candidate(...)
AddAll(acc, cs) ==
    IF cs = <<>> THEN acc
    ELSE AddAll([acc EXCEPT
                    !.candidates = AddCandidate(@, files[cs[1].path], cs[1].path,
                                                cs[1].method, cs[1].label),
                    !.warnings = AddWarning(@, files[cs[1].path], cs[1].label)],
                Tail(cs))

RECURSIVE Merged(_, _)
\* the loop that merges the bundles into steps, warnings, candidates, temp_paths
Merged(acc, names) ==
    IF names = <<>> THEN acc
    ELSE LET o == ResultOf(names[1])
             a == [acc EXCEPT !.steps = @ \o o.steps, !.warnings = @ \o o.warnings]
             b == AddAll(a, o.candidates)
         IN Merged([b EXCEPT !.tempPaths = @ \o o.tempPaths], Tail(names))

\* every task has returned and its result is in task_results
AllCollected == \A l \in Lanes : lanePc[l] \in {"off", "collected"}

Merge ==
    /\ cpc = "tasks"
    /\ AllCollected
    /\ LET m == Merged([steps |-> steps, warnings |-> warnings,
                        candidates |-> candidates, tempPaths |-> tempPaths], MergeOrder)
       IN /\ steps' = m.steps
          /\ warnings' = m.warnings
          /\ candidates' = m.candidates
          /\ tempPaths' = m.tempPaths
    /\ cpc' = "check"
    /\ UNCHANGED <<workerVars, webVars, callVars, cfg, files, budgetVars, pathVars, laneVars, selVars, raised>>

\* ---------------------------------------------------------------- selection
MalformedMessage ==
    "Could not compress this PDF due to malformed structure; try Repair PDF first."

\* if not candidates: raise ValueError(...)
Check ==
    /\ cpc = "check"
    /\ IF candidates = <<>>
       THEN /\ raised' = MalformedMessage
            /\ cpc' = "raised"
       ELSE /\ raised' = raised
            /\ cpc' = "select"
    /\ UNCHANGED <<workerVars, webVars, callVars, cfg, files, budgetVars, listVars, pathVars, laneVars, selVars>>

\* best = min(...); method = best["method"]; "original" becomes "passthrough"
Select ==
    /\ cpc = "select"
    /\ best' = BestOf(candidates)
    /\ method' = IF best'.method = "original" THEN "passthrough" ELSE best'.method
    /\ warnings' = IF best'.method = "original"
                   THEN Append(warnings, "No smaller output found; preserving original content.")
                   ELSE warnings
    /\ cpc' = "threshold"
    /\ UNCHANGED <<workerVars, webVars, callVars, cfg, files, budgetVars, steps, candidates, tempPaths,
                   pathVars, laneVars, status, finalPath, raised>>

\* next((c for c in candidates if c["path"] == input_path), best)
OriginalOr(c, b) ==
    IF \E i \in 1..Len(c) : c[i].path = "input"
    THEN c[CHOOSE i \in 1..Len(c) :
             c[i].path = "input" /\ \A k \in 1..(i - 1) : c[k].path # "input"]
    ELSE b

\* status = "success"; below the threshold: status = "no_change" and best is
\* switched to the original
Threshold ==
    /\ cpc = "threshold"
    /\ IF BelowThreshold(Savings(best.size))
       THEN /\ status' = "no_change"
            /\ best' = OriginalOr(candidates, best)
       ELSE /\ status' = "success"
            /\ best' = best
    /\ cpc' = "materialize"
    /\ UNCHANGED <<workerVars, webVars, callVars, cfg, files, budgetVars, listVars, pathVars, laneVars,
                   method, finalPath, raised>>

\* final_path = best["path"]; the original is copied to output_path, any
\* other candidate is moved there
Materialize ==
    /\ cpc = "materialize"
    /\ files' = IF best.path = "input"
                THEN [files EXCEPT !["output"] = files["input"]]
                ELSE [files EXCEPT !["output"] = files[best.path], ![best.path] = NoFile]
    /\ finalPath' = "output"
    /\ cpc' = "deterministic"
    /\ UNCHANGED <<workerVars, webVars, callVars, cfg, budgetVars, listVars, pathVars, laneVars,
                   best, method, status, raised>>

\* the output of a pass replaces output_path when the command exited 0
AdoptUnvalidated(r, f) == r.ok

\* if result["ok"] and _validate_candidate(out, expected_pages)
Adopt(r, f) == r.ok /\ ValidateCandidate(f)

\* if qpdf: the determinism pass over final_path
Deterministic ==
    /\ cpc = "deterministic"
    /\ IF cfg.qpdf
       THEN \E r \in CmdResults : \E f \in Written(r, "deterministic") :
              /\ Spend(r)
              /\ steps' = Append(steps, MakeStepEntry("deterministic_id", r, ""))
              /\ tempPaths' = Append(tempPaths, "deterministic")
              /\ files' = IF Adopt(r, f)
                          THEN [files EXCEPT !["output"] = f, !["deterministic"] = NoFile]
                          ELSE [files EXCEPT !["deterministic"] = f]
       ELSE UNCHANGED <<files, budgetVars, steps, tempPaths>>
    /\ cpc' = "zopfli"
    /\ UNCHANGED <<workerVars, webVars, callVars, cfg, warnings, candidates, pathVars, laneVars, selVars, raised>>

\* if use_zopfli and qpdf (without qpdf the flag changes nothing): the zopfli
\* pass, adopted when its own savings meet
\* the threshold
Zopfli ==
    /\ cpc = "zopfli"
    /\ \E z \in IF cfg.qpdf THEN BOOLEAN ELSE {FALSE} :
         /\ cfg' = [cfg EXCEPT !.useZopfli = z]
         /\ IF z /\ cfg.qpdf
            THEN \E r \in CmdResults : \E f \in Written(r, "zopfli") :
                   /\ Spend(r)
                   /\ steps' = Append(steps, MakeStepEntry("qpdf_zopfli", r, ""))
                   /\ tempPaths' = Append(tempPaths, "zopfli")
                   /\ files' = IF Adopt(r, f) /\ ~BelowThreshold(Savings(f.size))
                               THEN [files EXCEPT !["output"] = f, !["zopfli"] = NoFile]
                               ELSE [files EXCEPT !["zopfli"] = f]
            ELSE UNCHANGED <<files, budgetVars, steps, tempPaths>>
    /\ cpc' = "cleanup"
    /\ UNCHANGED <<workerVars, webVars, callVars, warnings, candidates, pathVars, laneVars, selVars, raised>>

TempSet == {tempPaths[i] : i \in 1..Len(tempPaths)}

\* the temp paths are unlinked; return final_path, result_payload
Finish ==
    /\ cpc = "cleanup"
    /\ files' = [p \in Paths |->
                   IF p \in TempSet \ {"input", "output"} THEN NoFile ELSE files[p]]
    /\ cpc' = "returned"
    /\ UNCHANGED <<workerVars, webVars, callVars, cfg, budgetVars, listVars, pathVars, laneVars, selVars, raised>>

\* result_payload: output_bytes, savings_bytes
OutputBytes == files["output"].size

\* compress_pdf up to the check for candidates, the lane flags at their
\* defaults: the Ghostscript lane is the only task
NextStages ==
    \/ Preflight
    \/ Original
    \/ NormMutool
    \/ NormQpdf
    \/ NormPypdf
    \/ OptQpdf
    \/ OptMutool
    \/ GsEarly
    \/ QpdfAfterGs
    \/ LanesSetup
    \/ \E l \in Lanes : LaneStart(l)
    \/ LaneGsProbe
    \/ LaneGsFull
    \/ LaneGsRetry
    \/ Merge
    \/ Check

SpecStages == InitStages /\ [][NextStages]_vars

\* compress_pdf up to the check for candidates, with every lane
NextLanes ==
    \/ Preflight
    \/ Original
    \/ NormMutool
    \/ NormQpdf
    \/ NormPypdf
    \/ OptQpdf
    \/ OptMutool
    \/ GsEarly
    \/ QpdfAfterGs
    \/ LanesSetup
    \/ \E l \in Lanes : LaneStart(l)
    \/ LaneImageOpt
    \/ LanePdfsizeopt
    \/ LaneGsProbe
    \/ LaneGsFull
    \/ LaneGsRetry
    \/ Merge
    \/ Check

SpecLanes == InitLanes /\ [][NextLanes]_vars

\* the whole of compress_pdf where no lane task is enabled
NextCompress ==
    \/ Preflight
    \/ Original
    \/ NormMutool
    \/ NormQpdf
    \/ NormPypdf
    \/ OptQpdf
    \/ OptMutool
    \/ GsEarly
    \/ LanesSetup
    \/ Merge
    \/ Check
    \/ Select
    \/ Threshold
    \/ Materialize
    \/ Deterministic
    \/ Zopfli
    \/ Finish

SpecCompress == InitCompress /\ [][NextCompress]_vars

\* ---------------------------------------------------------------- compress_pdf: properties
CandIdx == 1..Len(candidates)
StepIdx == 1..Len(steps)

\* C13: when compress_pdf returns, the final output file either equals the
\* input byte for byte (and the status is no_change) or is a file that passed
\* validation.
C13_FinalValid ==
    cpc = "returned" =>
        \/ files["output"].data = "input" /\ status = "no_change"
        \/ files["output"].st = "valid"

\* compress_pdf returned the output of the determinism pass of a smaller file
C13_Witness ==
    /\ cpc = "returned"
    /\ status = "success"
    /\ files["output"].data = "deterministic"

\* C14: every entry of the candidate set is a file that passes validation,
\* recorded with its size; an output that fails validation is not in the set.
C14_CandidatesValid ==
    cpc \notin {"idle"} =>
        \A i \in CandIdx :
            /\ files[candidates[i].path].st = "valid"
            /\ candidates[i].size = files[candidates[i].path].size

\* a lane's command exited 0 with an output that fails validation, and the
\* bundles have been merged
C14_Witness ==
    /\ cpc = "check"
    /\ Len(candidates) >= 1
    /\ \E l \in {"image_opt", "pdfsizeopt", "gs"} : files[l].st = "invalid"

HasStep(name) == \E i \in StepIdx : steps[i].name = name

StepOk(name) == \E i \in StepIdx : steps[i].name = name /\ steps[i].ok

\* the step was recorded for a command that ran
StepRan(name) ==
    \E i \in StepIdx : steps[i].name = name /\ steps[i].notes \notin
        {"skipped: mutool not available", "skipped: qpdf not available"}

\* C15: normalization uses the first method that succeeds in the order mutool,
\* qpdf, library rewrite: when mutool is absent or its run failed and qpdf is
\* present, qpdf normalization is attempted; when neither succeeded, the
\* library rewrite is attempted.
C15_NormalizeFallback ==
    cpc = "optQpdf" =>
        /\ (~StepOk("normalize_mutool") /\ cfg.qpdf) => StepRan("normalize_qpdf")
        /\ (~StepOk("normalize_mutool") /\ ~StepOk("normalize_qpdf"))
               => HasStep("normalize_pypdf")

IsMinimal(b, c) ==
    /\ \E i \in 1..Len(c) : c[i] = b
    /\ \A i \in 1..Len(c) : b.size <= c[i].size

\* C16: selection picks a candidate of minimal recorded size and leaves the
\* candidate set as it is; when it picks the original the method is
\* "passthrough" and a warning is added.
C16_SelectMinimal ==
    [][cpc = "select" =>
          /\ candidates' = candidates
          /\ IsMinimal(best', candidates)
          /\ best'.method = "original" =>
                /\ method' = "passthrough"
                /\ Len(warnings') = Len(warnings) + 1]_vars

\* selection picked the original among several candidates
C16_Witness ==
    /\ cpc = "threshold"
    /\ Len(candidates) >= 2
    /\ method = "passthrough"
    /\ \E i \in CandIdx : candidates[i].size > best.size

\* C17: after the threshold step, if the selected candidate's savings are
\* below the threshold the status is "no_change" and the file materialized to
\* output_path is the original input; otherwise the status is "success" and
\* the selected candidate is materialized.
C17_ThresholdOriginal ==
    cpc = "deterministic" =>
        IF BelowThreshold(Savings(BestOf(candidates).size))
        THEN status = "no_change" /\ files["output"].data = "input"
        ELSE status = "success" /\ files["output"].data = BestOf(candidates).path

\* the step entries of the shared list and of the bundles not merged yet
TimeoutNotes ==
    Cardinality({i \in StepIdx : steps[i].notes = "timeout"})
    + (IF cpc = "tasks"
       THEN Cardinality({<<l, i>> \in Lanes \X (1..3) :
                i <= Len(laneOut[l].steps) /\ laneOut[l].steps[i].notes = "timeout"})
       ELSE 0)

\* a stage's failure only records a step, "timeout" on a timeout
StagesContinue ==
    /\ TimeoutNotes = touts
    /\ cpc \in {"select", "threshold", "materialize", "deterministic", "zopfli",
                "cleanup", "returned"} => candidates # <<>>

C19_LanesIsolated ==
    [][cpc = "tasks" =>
          \/ UNCHANGED listVars
          \/ AllCollected /\ cpc' = "check"]_vars

\* two lanes run in parallel after the sequential stages left a candidate:
\* one has returned its bundle, the Ghostscript lane is between two commands
C19_Witness ==
    /\ cpc = "tasks"
    /\ Parallel
    /\ lanePc["ghostscript"] = "probed"
    /\ lanePc["image_opt"] = "collected"
    /\ Len(laneOut["image_opt"].candidates) = 1
    /\ Len(candidates) >= 1

\* ---------------------------------------------------------------- web_to_pdf
MaxAddrs == 2     \* addresses in one answer of the resolver: 1..MaxAddrs

\* MAX_WEB_BYTES
MAX_WEB_BYTES == 2 * 1024 * 1024

\* chunk_size of response.iter_content
ChunkSize == 64 * 1024

\* the properties of ipaddress.ip_address(address) that _is_public_ip reads,
\* one address of each kind for IPv4 and a public and a loopback IPv6 address
Addresses ==
    {[v |-> 4, class |-> c] : c \in {"public", "private", "loopback", "link_local",
                                     "multicast", "reserved", "unspecified"}}
    \cup {[v |-> 6, class |-> c] : c \in {"public", "loopback"}}

\* _is_public_ip without the loopback test
IsPublicIpLoopbackAllowed(ip) ==
    ~(\/ ip.class = "private"
      \/ ip.class = "link_local"
      \/ ip.class = "multicast"
      \/ ip.class = "reserved"
      \/ ip.class = "unspecified")

\* _is_public_ip(address)
IsPublicIp(ip) ==
    ~(\/ ip.class = "private"
      \/ ip.class = "loopback"
      \/ ip.class = "link_local"
      \/ ip.class = "multicast"
      \/ ip.class = "reserved"
      \/ ip.class = "unspecified")

\* what socket.getaddrinfo(hostname, None) can return
Answers == UNION {[1..n -> Addresses] : n \in 1..MaxAddrs}

\* _resolve_public_ip: the first public IPv4 address of the answer, else the
\* first public address, else ValueError("URL host is not allowed")
ResolvePublicIp(infos) ==
    LET public_ips == SelectSeq(infos, IsPublicIp)
        IsV4(a) == a.v = 4
        ipv4_candidates == SelectSeq(public_ips, IsV4)
    IN  IF public_ips = <<>> THEN [ok |-> FALSE, ip |-> NoAddr, err |-> "URL host is not allowed"]
        ELSE IF ipv4_candidates # <<>> THEN [ok |-> TRUE, ip |-> ipv4_candidates[1], err |-> ""]
        ELSE [ok |-> TRUE, ip |-> public_ips[1], err |-> ""]

\* the responses a server can give: a status and a body of `full` chunks of
\* ChunkSize bytes followed by a chunk of `last` bytes
Responses == [status : {200, 302, 404}, full : {0, 32, 33}, last : {0, 1}]

\* the size test of _fetch_html switched off
TooLargeNever(len) == FALSE

\* len(body) > MAX_WEB_BYTES
TooLarge(len) == len > MAX_WEB_BYTES

\* the loop over response.iter_content in _fetch_html: the length of the body
\* when the chunks are exhausted or when it first exceeds MAX_WEB_BYTES
RECURSIVE Stream(_, _, _)
Stream(len, full, last) ==
    IF TooLarge(len) THEN [len |-> len, over |-> TRUE]
    ELSE IF full > 0 THEN Stream(len + ChunkSize, full - 1, last)
    ELSE IF last > 0 THEN Stream(len + last, 0, 0)
    ELSE [len |-> len, over |-> FALSE]

\* the status test of _fetch_html without the redirect branch
IsRedirectNever(code) == FALSE

\* 300 <= response.status_code < 400
IsRedirect(code) == code >= 300 /\ code < 400

\* _fetch_html after session.get returned a response: read is the number of
\* bytes taken from the stream
FetchHtml(response) ==
    IF IsRedirect(response.status)
    THEN [ok |-> FALSE, len |-> 0, read |-> 0, err |-> "Redirects are not allowed"]
    ELSE IF response.status >= 400
    THEN [ok |-> FALSE, len |-> 0, read |-> 0, err |-> "HTTPError"]
    ELSE LET b == Stream(0, response.full, response.last)
         IN  IF b.over
             THEN [ok |-> FALSE, len |-> 0, read |-> b.len, err |-> "Web response too large"]
             ELSE [ok |-> TRUE, len |-> b.len, read |-> b.len, err |-> ""]

\* a request of session.get: the address the connection was opened to, the
\* Host header, allow_redirects, and what came of it
Get(path, addr, result, code, read) ==
    [path |-> path, addr |-> addr, host |-> (path = "pinned"), redirects |-> FALSE,
     result |-> result, status |-> code, read |-> read]

\* allow_fallback with the flag left out
AllowFallbackUngated(scheme, flag) == scheme = "https"

\* allow_fallback = parsed.scheme == "https" and the flag is "1"
AllowFallback(scheme, flag) == scheme = "https" /\ flag

\* an exception leaves web_to_pdf
WebRaise(e) ==
    /\ wpc' = "raised"
    /\ wraised' = e

\* web_to_pdf is called with some URL
InitWeb ==
    /\ WorkerInit
    /\ CompressIdle
    /\ CallIdle
    /\ wpc = "parse"
    /\ parsed \in [scheme : {"http", "https", "ftp"}, hostname : BOOLEAN]
    /\ allowFallback = "unread"
    /\ targetIp = NoAddr
    /\ conns = <<>>
    /\ body = 0
    /\ wraised = ""
    /\ wout = -1

\* parsed = urlparse(url); the scheme and hostname test
WebParse ==
    /\ wpc = "parse"
    /\ IF parsed.scheme \notin {"http", "https"} \/ ~parsed.hostname
       THEN WebRaise("Only http/https URLs are supported")
       ELSE wpc' = "resolve" /\ UNCHANGED wraised
    /\ UNCHANGED <<workerVars, compressVars, callVars, parsed, allowFallback, targetIp, conns, body, wout>>

\* target_ip = _resolve_public_ip(parsed.hostname)
WebResolve ==
    /\ wpc = "resolve"
    /\ \/ WebRaise("Unable to resolve host") /\ UNCHANGED targetIp
       \/ \E infos \in Answers :
            LET r == ResolvePublicIp(infos)
            IN  IF r.ok
                THEN wpc' = "pinned" /\ targetIp' = r.ip /\ UNCHANGED wraised
                ELSE WebRaise(r.err) /\ UNCHANGED targetIp
    /\ UNCHANGED <<workerVars, compressVars, callVars, parsed, allowFallback, conns, body, wout>>

\* the rest of _fetch_html once the connection on path to addr gave a response
WebResponse(path, addr, response) ==
    LET r == FetchHtml(response)
    IN  /\ conns' = Append(conns, Get(path, addr, IF r.ok THEN "ok" ELSE r.err,
                                      response.status, r.read))
        /\ IF r.ok
           THEN wpc' = "convert" /\ body' = r.len /\ UNCHANGED wraised
           ELSE WebRaise(r.err) /\ UNCHANGED body

\* _fetch_html(session, target_url, host_header): the URL names target_ip, so
\* the connection is opened to it; a TLS failure can only occur for https
WebPinned ==
    /\ wpc = "pinned"
    /\ \/ /\ parsed.scheme = "https"
          /\ conns' = Append(conns, Get("pinned", targetIp, "SSLError", 0, 0))
          /\ \E flag \in BOOLEAN :
               /\ allowFallback' = flag
               /\ IF AllowFallback(parsed.scheme, flag)
                  THEN wpc' = "revalidate" /\ UNCHANGED wraised
                  ELSE WebRaise("SSLError")
          /\ UNCHANGED body
       \/ /\ conns' = Append(conns, Get("pinned", targetIp, "ConnectionError", 0, 0))
          /\ WebRaise("ConnectionError")
          /\ UNCHANGED <<body, allowFallback>>
       \/ \E response \in Responses :
            WebResponse("pinned", targetIp, response) /\ UNCHANGED allowFallback
    /\ UNCHANGED <<workerVars, compressVars, callVars, parsed, targetIp, wout>>

\* except SSLError with the fallback allowed: _resolve_public_ip(parsed.hostname),
\* whose result is not used
WebRevalidate ==
    /\ wpc = "revalidate"
    /\ \/ WebRaise("Unable to resolve host")
       \/ \E infos \in Answers :
            LET r == ResolvePublicIp(infos)
            IN  IF r.ok THEN wpc' = "fallback" /\ UNCHANGED wraised
                        ELSE WebRaise(r.err)
    /\ UNCHANGED <<workerVars, compressVars, callVars, parsed, allowFallback, targetIp, conns, body, wout>>

\* _fetch_html(fallback_session, parsed.geturl(), None): the URL names the
\* host, which the HTTP library resolves itself; it connects to the first
\* address of the answer that accepts the connection
WebFallback ==
    /\ wpc = "fallback"
    /\ \/ WebRaise("ConnectionError") /\ UNCHANGED <<conns, body>>
       \/ \E infos \in Answers : \E i \in 1..Len(infos) :
            \/ /\ conns' = Append(conns, Get("fallback", infos[i], "SSLError", 0, 0))
               /\ WebRaise("SSLError")
               /\ UNCHANGED body
            \/ /\ conns' = Append(conns, Get("fallback", infos[i], "ConnectionError", 0, 0))
               /\ WebRaise("ConnectionError")
               /\ UNCHANGED body
            \/ \E response \in Responses : WebResponse("fallback", infos[i], response)
    /\ UNCHANGED <<workerVars, compressVars, callVars, parsed, allowFallback, targetIp, wout>>

\* html = body.decode(...); return html_to_pdf(html, output_path)
WebConvert ==
    /\ wpc = "convert"
    /\ wout' = body
    /\ wpc' = "returned"
    /\ UNCHANGED <<workerVars, compressVars, callVars, parsed, allowFallback, targetIp, conns, body, wraised>>

NextWeb ==
    \/ WebParse
    \/ WebResolve
    \/ WebPinned
    \/ WebRevalidate
    \/ WebFallback
    \/ WebConvert

SpecWeb == InitWeb /\ [][NextWeb]_vars

\* ---------------------------------------------------------------- web_to_pdf: properties
\* C20: every connection of a web fetch, on the pinned path and on the
\* hostname-fallback path, is opened to a public IP address, whatever the
\* resolver answers.
C20_ConnectsPublic ==
    \A i \in 1..Len(conns) : IsPublicIp(conns[i].addr)

FallbackGets == {i \in 1..Len(conns) : conns[i].path = "fallback"}

\* the one failure web_to_pdf recovers from
Recovered(i) ==
    /\ i = 1
    /\ conns[i].path = "pinned"
    /\ conns[i].result = "SSLError"
    /\ parsed.scheme = "https"
    /\ allowFallback = TRUE

\* C21: the hostname fallback fetch happens at most once per call, only after
\* the pinned fetch failed with a TLS error with scheme https and the flag
\* set, and only from the re-validation of the hostname; every other failed
\* fetch, the fallback's TLS failure included, ends the call with its error.
C21_FallbackOnce ==
    /\ [](/\ Cardinality(FallbackGets) <= 1
          /\ \A i \in FallbackGets : i = 2 /\ Recovered(1)
          /\ \A i \in 1..Len(conns) :
                (conns[i].result # "ok" /\ ~Recovered(i))
                    => (wpc = "raised" /\ wraised = conns[i].result /\ i = Len(conns)))
    /\ [][wpc' = "fallback" => wpc = "revalidate"]_vars

\* a call that recovered through the fallback fetch and returned
C21_Witness ==
    /\ wpc = "returned"
    /\ Len(conns) = 2
    /\ conns[2].path = "fallback"
    /\ conns[2].result = "ok"

\* C22: no fetch follows a redirect: every request is sent with redirects
\* disabled, and a response with a status in [300,400) on either path ends the
\* call with "Redirects are not allowed" and no output.
C22_NoRedirects ==
    \A i \in 1..Len(conns) :
        /\ ~conns[i].redirects
        /\ (conns[i].status >= 300 /\ conns[i].status < 400)
              => /\ wpc = "raised"
                 /\ wraised = "Redirects are not allowed"
                 /\ wout = -1
                 /\ i = Len(conns)

\* the fallback fetch was answered with a redirect
C22_Witness ==
    /\ wpc = "raised"
    /\ Len(conns) = 2
    /\ conns[2].status = 302
    /\ wraised = "Redirects are not allowed"

\* C23: an output is produced only from a complete body of at most
\* MAX_WEB_BYTES; a stream whose accumulated chunks exceed the cap is aborted
\* at the chunk that exceeds it with "Web response too large" and nothing is
\* written.
C23_BodyCapped ==
    /\ wout # -1 =>
          /\ wout <= MAX_WEB_BYTES
          /\ conns # <<>>
          /\ conns[Len(conns)].result = "ok"
          /\ conns[Len(conns)].read = wout
    /\ \A i \in 1..Len(conns) :
          conns[i].read > MAX_WEB_BYTES
              => /\ conns[i].read <= MAX_WEB_BYTES + ChunkSize
                 /\ wpc = "raised"
                 /\ wraised = "Web response too large"
                 /\ wout = -1

\* a response of MAX_WEB_BYTES + 1 bytes was aborted
C23_Witness ==
    /\ wpc = "raised"
    /\ wraised = "Web response too large"
    /\ conns[Len(conns)].read = MAX_WEB_BYTES + 1

\* C24: for a host that resolves to no public address web_to_pdf fails with
\* "URL host is not allowed" before any request is issued; every request is
\* preceded by a resolution that gave a public target address.
C24_ValidationFirst ==
    /\ (wpc = "raised" /\ targetIp = NoAddr) =>
          /\ conns = <<>>
          /\ wraised \in {"Only http/https URLs are supported", "Unable to resolve host",
                          "URL host is not allowed"}
    /\ conns # <<>> => targetIp.class = "public"

\* the first resolution gave no public address
C24_Witness ==
    /\ wpc = "raised"
    /\ wraised = "URL host is not allowed"
    /\ targetIp = NoAddr
    /\ conns = <<>>

\* ---------------------------------------------------------------- pdf_to_pdfa
\* PDF_A_MIN_VERSION
PDF_A_MIN_VERSION == <<10, 3, 1>>

\* what `gs --version` can print: the parts of the first token between the
\* dots, a part that is not all digits written as -1 ("10.03.1" is
\* <<10, 3, 1>>, "9.56" is <<9, 56>>, "" is <<>>)
VersionOutputs ==
    {<<>>, <<-1>>, <<9, 56>>, <<10>>, <<10, 3>>, <<10, 3, 0>>, <<10, 3, 1>>,
     <<10, 2, -1>>, <<10, 4>>, <<11, 0, 0, 5>>}

\* the loop of _parse_version_tuple: the leading parts that are all digits
RECURSIVE Numbers(_)
Numbers(parts) ==
    IF parts = <<>> \/ Head(parts) < 0 THEN <<>>
    ELSE <<Head(parts)>> \o Numbers(Tail(parts))

\* _parse_version_tuple(raw): ValueError when no part is a number, else the
\* first three numbers, missing ones as 0
ParseVersionTuple(parts) ==
    LET numbers == Numbers(parts)
        padded == numbers \o <<0, 0>>
    IN  IF numbers = <<>> THEN [ok |-> FALSE, v |-> <<>>]
        ELSE [ok |-> TRUE, v |-> <<padded[1], padded[2], padded[3]>>]

\* the order of Python tuples of three integers
TupleLess(a, b) ==
    \/ a[1] < b[1]
    \/ a[1] = b[1] /\ a[2] < b[2]
    \/ a[1] = b[1] /\ a[2] = b[2] /\ a[3] < b[3]

\* the input file and the machine pdf_to_pdfa runs on
PdfaEnvs ==
    [encrypted : BOOLEAN, gs : BOOLEAN, versionRun : {"ok", "fail", "timeout"},
     versionOutput : VersionOutputs, convert : {"ok", "fail", "timeout"},
     written : BOOLEAN]

PdfaResult(e, calls, version) ==
    [done |-> TRUE, exc |-> e, calls |-> calls, version |-> version]

\* RuntimeError("Ghostscript >= 10.03.1 is required for PDF/A conversion")
OldGhostscript ==
    Exc("RuntimeError", "Ghostscript >= 10.03.1 is required for PDF/A conversion", "tool")

\* pdf_to_pdfa with the test of reader.is_encrypted after the conversion
PdfToPdfaEncryptedLast(env) ==
    IF ~env.gs
    THEN PdfaResult(Exc("RuntimeError", "Ghostscript is required for PDF/A conversion", "tool"),
                    <<"which">>, <<>>)
    ELSE IF env.encrypted
    THEN PdfaResult(Exc("ValueError", "Encrypted PDFs are not supported for PDF/A conversion",
                        "tool"), <<"which", "gs --version", "gs -dPDFA=2">>, <<>>)
    ELSE PdfaResult(NoExc, <<"which", "gs --version", "gs -dPDFA=2">>, <<>>)

\* pdf_to_pdfa(input_path, output_path): what it raises, the lookups and
\* subprocesses it ran, and the version it parsed
PdfToPdfa(env) ==
    LET parsed_version == ParseVersionTuple(env.versionOutput)
        looked == <<"which">>
        probed == <<"which", "gs --version">>
        ran == <<"which", "gs --version", "gs -dPDFA=2">>
    IN  IF env.encrypted
        THEN PdfaResult(Exc("ValueError",
                            "Encrypted PDFs are not supported for PDF/A conversion", "tool"),
                        <<>>, <<>>)
        ELSE IF ~env.gs
        THEN PdfaResult(Exc("RuntimeError", "Ghostscript is required for PDF/A conversion",
                            "tool"), looked, <<>>)
        ELSE IF env.versionRun = "timeout"
        THEN PdfaResult(Exc("TimeoutExpired", "timed out", "tool"), probed, <<>>)
        ELSE IF env.versionRun = "fail"
        THEN PdfaResult(Exc("RuntimeError", "Ghostscript version check failed", "tool"),
                        probed, <<>>)
        ELSE IF ~parsed_version.ok
        THEN PdfaResult(OldGhostscript, probed, <<>>)
        ELSE IF TupleLess(parsed_version.v, PDF_A_MIN_VERSION)
        THEN PdfaResult(OldGhostscript, probed, parsed_version.v)
        ELSE IF env.convert = "timeout"
        THEN PdfaResult(Exc("RuntimeError", "PDF/A conversion timed out", "tool"),
                        ran, parsed_version.v)
        ELSE IF env.convert = "fail"
        THEN PdfaResult(Exc("RuntimeError", "PDF/A conversion failed", "tool"),
                        ran, parsed_version.v)
        ELSE IF ~env.written
        THEN PdfaResult(Exc("RuntimeError", "PDF/A conversion produced no output", "tool"),
                        ran, parsed_version.v)
        ELSE PdfaResult(NoExc, ran, parsed_version.v)

\* pdf_to_pdfa is called on some file on some machine
InitPdfa ==
    /\ WorkerInit
    /\ CompressIdle
    /\ WebIdle
    /\ call \in [fn : {"pdf_to_pdfa"}, env : PdfaEnvs]
    /\ ret = NotReturned

\* the call runs
PdfaCall ==
    /\ call.fn = "pdf_to_pdfa"
    /\ ~ret.done
    /\ ret' = PdfToPdfa(call.env)
    /\ UNCHANGED <<workerVars, compressVars, webVars, call>>

NextPdfa == PdfaCall

SpecPdfa == InitPdfa /\ [][NextPdfa]_vars

\* C28: pdf_to_pdfa on an encrypted input raises a ValueError before
\* Ghostscript is looked up or run: no lookup and no subprocess happens.
C28_EncryptedFirst ==
    (call.fn = "pdf_to_pdfa" /\ ret.done /\ call.env.encrypted) =>
        /\ ret.exc.cls = "ValueError"
        /\ ret.calls = <<>>

\* an encrypted input on a machine where Ghostscript would have converted it
C28_Witness ==
    /\ call.fn = "pdf_to_pdfa"
    /\ ret.done
    /\ call.env.encrypted
    /\ call.env.gs
    /\ call.env.versionRun = "ok"
    /\ call.env.versionOutput = <<10, 3, 1>>
    /\ call.env.convert = "ok"

\* ---------------------------------------------------------------- _run_tool
SupportedTools ==
    {"merge", "split", "compress", "repair", "rotate", "remove-pages", "reorder-pages",
     "watermark", "page-numbers", "crop", "redact", "compare", "highlight", "unlock",
     "protect", "image-to-pdf", "pdf-to-jpg", "web-to-pdf", "office-to-pdf", "pdfa",
     "pdf-to-word", "pdf-to-text", "pdf-to-word-ocr", "pdf-to-excel", "pdf-to-excel-ocr"}

\* job["tool"] of the jobs the queue hands out
JobTools == SupportedTools \cup {"thumbnail"}

\* the branches that begin with `if not inputs: raise ValueError(...)`
GuardedTools ==
    {"highlight", "office-to-pdf", "pdfa", "pdf-to-word", "pdf-to-text",
     "pdf-to-word-ocr", "pdf-to-excel", "pdf-to-excel-ocr"}

\* the branches that read inputs[0] without that test
FirstInputTools ==
    {"split", "compress", "repair", "rotate", "remove-pages", "reorder-pages",
     "watermark", "page-numbers", "crop", "redact", "unlock", "protect", "pdf-to-jpg"}

\* the config key a branch requires, and the text of its ValueError
RequiredConfig(t) ==
    CASE t = "watermark" -> <<"text", "Watermark text is required">>
      [] t = "redact" -> <<"text", "Text to redact is required">>
      [] t = "highlight" -> <<"text", "Text to highlight is required">>
      [] t = "crop" -> <<"margins", "Margins are required">>
      [] t \in {"unlock", "protect"} -> <<"password", "Password is required">>
      [] t = "web-to-pdf" -> <<"url", "URL is required">>
      [] OTHER -> <<"", "">>

\* a branch that does not test its required config
ConfigMissingIgnored(t, blank) == FALSE

\* `if not str(text).strip()`, `if not url`: the required key is missing or blank
ConfigMissing(t, blank) == RequiredConfig(t)[1] # "" /\ blank

\* the last statement raising a ValueError
UnsupportedToolAsValueError(t) == Exc("ValueError", "Unsupported tool", "dispatch")

\* raise RuntimeError(f"Unsupported tool: {tool}")
UnsupportedTool(t) == Exc("RuntimeError", "Unsupported tool", "dispatch")

\* _run_tool up to the call of the tool's operation: the exception raised
\* before it, for a job with n inputs whose required config is blank or not
CheckJob(t, blank, n) ==
    IF t \notin SupportedTools THEN UnsupportedTool(t)
    ELSE IF t \in GuardedTools /\ n = 0
    THEN Exc("ValueError", IF t = "office-to-pdf" THEN "Office file is required"
                           ELSE "PDF file is required", "dispatch")
    ELSE IF ConfigMissing(t, blank)
    THEN Exc("ValueError", RequiredConfig(t)[2], "dispatch")
    ELSE IF t = "compare" /\ n # 2
    THEN Exc("ValueError", "Two PDF files are required", "dispatch")
    ELSE IF t \in FirstInputTools /\ n = 0
    THEN Exc("IndexError", "list index out of range", "dispatch")
    ELSE NoExc

\* what the tool's operation can raise
OperationErrors(t) ==
    IF t = "pdfa" THEN {PdfToPdfa(env).exc : env \in PdfaEnvs} \ {NoExc}
    ELSE ToolErrors

\* outputs = self._run_tool(job, inputs, temp_path); progress["value"] = 75,
\* for a job of any tool and config
RunToolChecked ==
    /\ pc = "tool"
    /\ \E t \in JobTools, blank \in BOOLEAN :
         LET e == CheckJob(t, blank, nInputs) IN
         /\ tool' = t
         /\ call' = [fn |-> "_run_tool", tool |-> t, blank |-> blank]
         /\ IF e # NoExc
            THEN /\ outputs' = outputs
                 /\ progress' = progress
                 /\ log' = Append(log, [Ev("dispatch", cur) EXCEPT !.res = "error"])
                 /\ ret' = [done |-> TRUE, exc |-> e]
                 /\ Raise(e)
            ELSE \/ /\ outputs' = RunToolResult(t)
                    /\ progress' = [progress EXCEPT ![cur] = 75]
                    /\ log' = Append(log, Ev("tool", cur))
                    /\ ret' = [done |-> TRUE, exc |-> NoExc]
                    /\ Goto(ProcessJobNext(pc))
                 \/ \E x \in OperationErrors(t) :
                      /\ outputs' = outputs
                      /\ progress' = progress
                      /\ log' = Append(log, [Ev("tool", cur) EXCEPT !.res = "error"])
                      /\ ret' = [done |-> TRUE, exc |-> x]
                      /\ Raise(x)
    /\ UNCHANGED <<cur, nInputs, dlIdx, ulIdx, stop, hbpc, hbval, beats, lock, inflight, reports>>
    /\ UNCHANGED <<compressVars, webVars>>

\* the worker while no heartbeat timer expires
NextDispatch ==
    \/ ClaimSend
    \/ ClaimRecv
    \/ Sleep
    \/ StartHeartbeat
    \/ ReportSend
    \/ ReportRecv
    \/ DownloadUrlSend
    \/ DownloadUrlRecv
    \/ DownloadBlob
    \/ DownloadsDone
    \/ RunToolChecked
    \/ UploadUrlSend
    \/ UploadUrlRecv
    \/ UploadBlob
    \/ UploadsDone
    \/ CompleteSend
    \/ CompleteRecv
    \/ FailSend
    \/ FailRecv
    \/ Finally
    \/ Join

SpecDispatch == Init /\ [][NextDispatch]_vars

\* _run_tool has run for the job the log is about
Dispatched == tool # "unread" /\ call.fn = "_run_tool" /\ call.tool = tool

CompleteIssued == \E i \in LogIdx : log[i].op = "complete"

OperationInvoked == \E i \in LogIdx : log[i].op = "tool"

FailedWith(code) == \E i \in LogIdx : log[i].op = "fail" /\ log[i].code = code

\* C25: a job whose tool is not a supported tool ends with failJob
\* SERVICE_CAPACITY_TEMPORARY issued and no completeJob.
C25_UnsupportedTransient ==
    (Dispatched /\ tool \notin SupportedTools) =>
        /\ ~CompleteIssued
        /\ ~OperationInvoked
        /\ ~FailedWith("USER_INPUT_INVALID")
        /\ JobReturned => FailedWith("SERVICE_CAPACITY_TEMPORARY")

\* the job of an unsupported tool has returned
C25_Witness ==
    /\ Dispatched
    /\ tool = "thumbnail"
    /\ JobReturned
    /\ FailedWith("SERVICE_CAPACITY_TEMPORARY")

\* the job lacks the configuration its tool requires
LacksConfig ==
    \/ call.tool \in {"watermark", "redact", "highlight", "unlock", "protect", "crop",
                      "web-to-pdf"} /\ call.blank
    \/ call.tool = "compare" /\ nInputs # 2

\* C26: a job that lacks required tool configuration ends with failJob
\* USER_INPUT_INVALID, and the tool's operation is never invoked.
C26_MissingConfigUserError ==
    (Dispatched /\ LacksConfig) =>
        /\ ~OperationInvoked
        /\ ~CompleteIssued
        /\ ~FailedWith("SERVICE_CAPACITY_TEMPORARY")
        /\ JobReturned => FailedWith("USER_INPUT_INVALID")

\* a watermark job with blank text and an input has returned
C26_Witness ==
    /\ Dispatched
    /\ tool = "watermark"
    /\ call.blank
    /\ nInputs = 1
    /\ JobReturned
    /\ FailedWith("USER_INPUT_INVALID")

\* pdf_to_pdfa refused the installed Ghostscript
GhostscriptTooOld == ret.done /\ ret.exc.text = OldGhostscript.text

\* C27: a pdfa job run with a Ghostscript older than 10.3.1 fails with
\* USER_INPUT_INVALID, not with a transient error.
C27_OldGhostscriptUserError ==
    (Dispatched /\ tool = "pdfa" /\ GhostscriptTooOld) =>
        /\ ~FailedWith("SERVICE_CAPACITY_TEMPORARY")
        /\ JobReturned => FailedWith("USER_INPUT_INVALID")

\* ---------------------------------------------------------------- ConvexClient._call
\* a key the JSON object does not have; payload.get(key) is then None
Absent == "absent"

None == "None"

\* the JSON objects a response body can hold
Payloads ==
    [status : {"success", "error", Absent}, value : {"value", Absent},
     errorMessage : {"errorMessage", Absent}, errorData : {"errorData", Absent}]

\* what session.post can return: json is FALSE when the body is not JSON
ClientResponses == [status_code : {200, 560, 500, 404}, json : BOOLEAN, payload : Payloads]

\* payload.get(key, default)
PayloadGet(payload, key, default) ==
    IF payload[key] = Absent THEN default ELSE payload[key]

\* the status test accepting 200 only
AcceptedOnly200(code) == code = 200

\* response.status_code in (200, 560)
Accepted(code) == code \in {200, 560}

ClientResult(e, value, data) == [done |-> TRUE, exc |-> e, value |-> value, data |-> data]

\* ConvexClient._call after session.post returned: the value returned, or
\* the exception raised (a ConvexError with its data)
ClientCall(response) ==
    IF ~Accepted(response.status_code)
    THEN ClientResult(Exc("RuntimeError", "response.text", "rpc"), None, None)
    ELSE IF ~response.json
    THEN ClientResult(Exc("JSONDecodeError", "Expecting value", "rpc"), None, None)
    ELSE IF PayloadGet(response.payload, "status", None) = "success"
    THEN ClientResult(NoExc, PayloadGet(response.payload, "value", None), None)
    ELSE ClientResult(Exc("ConvexError",
                          PayloadGet(response.payload, "errorMessage", "Unknown error"), "rpc"),
                      None, PayloadGet(response.payload, "errorData", None))

\* a query or mutation has been posted and some response arrived
InitClient ==
    /\ WorkerInit
    /\ CompressIdle
    /\ WebIdle
    /\ call \in [fn : {"_call"}, response : ClientResponses]
    /\ ret = NotReturned

\* _call goes on from the response
ClientReturn ==
    /\ call.fn = "_call"
    /\ ~ret.done
    /\ ret' = ClientCall(call.response)
    /\ UNCHANGED <<workerVars, compressVars, webVars, call>>

NextClient == ClientReturn

SpecClient == InitClient /\ [][NextClient]_vars

\* the response carries a success envelope under an accepted HTTP status
SuccessEnvelope(response) ==
    /\ response.status_code \in {200, 560}
    /\ response.json
    /\ response.payload.status = "success"

\* C29: query and mutation return the value field exactly when the HTTP
\* status is 200 or 560 and the envelope status is "success"; any other HTTP
\* status raises a transient error whatever the body; an accepted status with
\* a non-success envelope raises a ConvexError carrying errorMessage and
\* errorData.
C29_ClientEnvelope ==
    (call.fn = "_call" /\ ret.done) =>
        LET response == call.response IN
        /\ ret.exc = NoExc <=> SuccessEnvelope(response)
        /\ ret.exc = NoExc =>
              ret.value = (IF response.payload.value = Absent THEN None
                           ELSE response.payload.value)
        /\ response.status_code \notin {200, 560} =>
              /\ ret.exc.cls = "RuntimeError"
              /\ Classify(ret.exc).code = "SERVICE_CAPACITY_TEMPORARY"
        /\ (response.status_code \in {200, 560} /\ response.json
                /\ response.payload.status # "success") =>
              /\ ret.exc.cls = "ConvexError"
              /\ response.payload.errorMessage # Absent
                    => ret.exc.text = response.payload.errorMessage
              /\ response.payload.errorData # Absent
                    => ret.data = response.payload.errorData

\* status 560 with a success envelope returned its value
C29_Witness ==
    /\ call.fn = "_call"
    /\ ret.done
    /\ call.response.status_code = 560
    /\ SuccessEnvelope(call.response)
    /\ ret.exc = NoExc
    /\ ret.value = "value"

\* ---------------------------------------------------------------- _parse_page_list
MaxTokens == 3    \* comma-separated tokens of a selection: 0..MaxTokens
MaxPages == 4     \* total_pages: 0..MaxPages

DigitChars == <<"0", "1", "2", "3", "4", "5", "6", "7", "8", "9">>

\* str(n) for n >= 0
RECURSIVE Digits(_)
Digits(n) ==
    IF n < 10 THEN <<DigitChars[n + 1]>>
    ELSE Digits(n \div 10) \o <<DigitChars[(n % 10) + 1]>>

Single(n) == [k |-> "single", a |-> n, b |-> n, txt |-> Digits(n)]

Range(a, b) == [k |-> "range", a |-> a, b |-> b, txt |-> Digits(a) \o <<"-">> \o Digits(b)]

Spaced(a, b) ==
    [k |-> "range", a |-> a, b |-> b,
     txt |-> <<" ">> \o Digits(a) \o <<" ", "-", " ">> \o Digits(b) \o <<" ">>]

Junk(txt) == [k |-> "junk", a |-> 0, b |-> 0, txt |-> txt]

\* the tokens a selection string is written from: page numbers, ranges
\* (one reversed, two reaching past the ends, one with blanks) and tokens that
\* are not numeric ("x", "", "-3", "1-2-3")
Tokens ==
    {Single(0), Single(1), Single(7),
     Range(3, 5), Range(5, 3), Range(0, 2), Range(3, 12), Spaced(1, 2),
     Junk(<<"x">>), Junk(<<>>), Junk(<<"-", "3">>), Junk(<<"1", "-", "2", "-", "3">>)}

Selections == UNION {[1..n -> Tokens] : n \in 0..MaxTokens}

\* ",".join of the tokens' texts
RECURSIVE JoinTokens(_)
JoinTokens(tokens) ==
    IF tokens = <<>> THEN <<>>
    ELSE IF Len(tokens) = 1 THEN tokens[1].txt
    ELSE tokens[1].txt \o <<",">> \o JoinTokens(Tail(tokens))

\* the index of the first sep in chars, 0 when there is none
FirstIndex(chars, sep) ==
    IF \E i \in 1..Len(chars) : chars[i] = sep
    THEN CHOOSE i \in 1..Len(chars) :
             chars[i] = sep /\ \A k \in 1..(i - 1) : chars[k] # sep
    ELSE 0

\* value.split(sep)
RECURSIVE Split(_, _)
Split(chars, sep) ==
    LET i == FirstIndex(chars, sep)
    IN  IF i = 0 THEN <<chars>>
        ELSE <<SubSeq(chars, 1, i - 1)>> \o Split(SubSeq(chars, i + 1, Len(chars)), sep)

\* part.strip()
RECURSIVE Strip(_)
Strip(chars) ==
    IF chars = <<>> THEN chars
    ELSE IF Head(chars) = " " THEN Strip(Tail(chars))
    ELSE IF chars[Len(chars)] = " " THEN Strip(SubSeq(chars, 1, Len(chars) - 1))
    ELSE chars

IsDigit(c) == \E d \in 1..10 : DigitChars[d] = c

DigitValue(c) == (CHOOSE d \in 1..10 : DigitChars[d] = c) - 1

\* the value of a sequence of digits
RECURSIVE Decimal(_)
Decimal(chars) ==
    IF chars = <<>> THEN 0
    ELSE 10 * Decimal(SubSeq(chars, 1, Len(chars) - 1)) + DigitValue(chars[Len(chars)])

\* int(text): blanks around it and a sign before the digits are accepted;
\* ok is FALSE where it raises ValueError
ParseInt(text) ==
    LET t == Strip(text)
        signed == t # <<>> /\ Head(t) \in {"-", "+"}
        digits == IF signed THEN Tail(t) ELSE t
    IN  IF digits = <<>> \/ \E i \in 1..Len(digits) : ~IsDigit(digits[i])
        THEN [ok |-> FALSE, v |-> 0]
        ELSE [ok |-> TRUE,
              v |-> IF signed /\ Head(t) = "-" THEN 0 - Decimal(digits) ELSE Decimal(digits)]

Max(a, b) == IF a >= b THEN a ELSE b

Min(a, b) == IF a <= b THEN a ELSE b

\* the body of the loop of _parse_ranges for one part: the range appended,
\* as a sequence of no or one pair
ParsePart(part, total_pages) ==
    LET cleaned == Strip(part)
        i == FirstIndex(cleaned, "-")
        start == IF i > 0 THEN SubSeq(cleaned, 1, i - 1) ELSE cleaned
        end == IF i > 0 THEN SubSeq(cleaned, i + 1, Len(cleaned)) ELSE cleaned
        s == ParseInt(start)
        e == ParseInt(end)
    IN  IF cleaned = <<>> THEN <<>>
        ELSE IF ~s.ok \/ ~e.ok THEN <<>>
        ELSE IF Max(1, s.v) <= Min(total_pages, e.v)
        THEN << <<Max(1, s.v), Min(total_pages, e.v)>> >>
        ELSE <<>>

\* _parse_ranges(value, total_pages)
RECURSIVE ParseParts(_, _)
ParseParts(parts, total_pages) ==
    IF parts = <<>> THEN <<>>
    ELSE ParsePart(Head(parts), total_pages) \o ParseParts(Tail(parts), total_pages)

ParseRanges(value, total_pages) == ParseParts(Split(value, ","), total_pages)

\* list(range(start, end + 1))
PagesOf(start, end) ==
    IF start <= end THEN [i \in 1..(end - start + 1) |-> start + i - 1] ELSE <<>>

\* pages.extend(...) that leaves out the pages already in the list
ExtendNoDuplicates(pages, start, end) ==
    LET IsNew(p) == \A i \in 1..Len(pages) : pages[i] # p
    IN  pages \o SelectSeq(PagesOf(start, end), IsNew)

\* pages.extend(range(start, end + 1))
Extend(pages, start, end) == pages \o PagesOf(start, end)

RECURSIVE ExtendAll(_, _)
ExtendAll(pages, ranges) ==
    IF ranges = <<>> THEN pages
    ELSE ExtendAll(Extend(pages, Head(ranges)[1], Head(ranges)[2]), Tail(ranges))

\* _parse_page_list(value, total_pages)
ParsePageList(value, total_pages) ==
    LET InDocument(page) == 1 <= page /\ page <= total_pages
    IN  SelectSeq(ExtendAll(<<>>, ParseRanges(value, total_pages)), InDocument)

\* _parse_page_list is called with a selection written from some tokens
InitPages ==
    /\ WorkerInit
    /\ CompressIdle
    /\ WebIdle
    /\ \E tokens \in Selections, n \in 0..MaxPages :
         call = [fn |-> "_parse_page_list", tokens |-> tokens, value |-> JoinTokens(tokens),
                 total_pages |-> n]
    /\ ret = NotReturned

\* the call runs
PagesCall ==
    /\ call.fn = "_parse_page_list"
    /\ ~ret.done
    /\ ret' = [done |-> TRUE, pages |-> ParsePageList(call.value, call.total_pages)]
    /\ UNCHANGED <<workerVars, compressVars, webVars, call>>

NextPages == PagesCall

SpecPages == InitPages /\ [][NextPages]_vars

\* the pages the claim names for one token
ExpectedOf(token, total_pages) ==
    IF token.k = "junk" THEN <<>>
    ELSE LET lo == IF token.a > 1 THEN token.a ELSE 1
             hi == IF token.b < total_pages THEN token.b ELSE total_pages
         IN  IF lo <= hi THEN [i \in 1..(hi - lo + 1) |-> lo + i - 1] ELSE <<>>

RECURSIVE Expected(_, _)
Expected(tokens, total_pages) ==
    IF tokens = <<>> THEN <<>>
    ELSE ExpectedOf(Head(tokens), total_pages) \o Expected(Tail(tokens), total_pages)

\* C30: _parse_page_list returns, in token order, for each numeric token N
\* or A-B the ascending pages from max(1, A) to min(totalPages, B) when that
\* range is not empty and nothing otherwise; tokens that are not numeric are
\* dropped, duplicates are kept, and every page lies in 1..totalPages.
C30_PageList ==
    (call.fn = "_parse_page_list" /\ ret.done) =>
        /\ ret.pages = Expected(call.tokens, call.total_pages)
        /\ \A i \in 1..Len(ret.pages) : ret.pages[i] \in 1..call.total_pages

\* "1,3-5,7" on 4 pages gave <<1, 3, 4>>
C30_Witness ==
    /\ call.fn = "_parse_page_list"
    /\ ret.done
    /\ call.value = <<"1", ",", "3", "-", "5", ",", "7">>
    /\ call.total_pages = 4
    /\ ret.pages = <<1, 3, 4>>

\* ---------------------------------------------------------------- _resolve_page_selection
\* the tools that take a page selection
SelectionTools == {"rotate", "watermark", "page-numbers", "crop", "redact", "highlight"}

\* the selections a job can carry: none, "", " ", "x", "7", "1", "2-3",
\* "1,1", "0-9", "," and "x,2"
PageSelections ==
    {[given |-> FALSE, tokens |-> <<>>, value |-> <<>>]}
    \cup {[given |-> TRUE, tokens |-> ts, value |-> JoinTokens(ts)] :
            ts \in {<<>>, <<Junk(<<" ">>)>>, <<Junk(<<"x">>)>>, <<Single(7)>>, <<Single(1)>>,
                    <<Range(2, 3)>>, <<Single(1), Single(1)>>, <<Range(0, 9)>>,
                    <<Junk(<<>>), Junk(<<>>)>>, <<Junk(<<"x">>), Single(2)>>}}

\* the elements of a list, as set(selection) builds them
SetOf(seq) == {seq[i] : i \in 1..Len(seq)}

\* a selection that parses to no page selects every page
ResolvePageSelectionEmptyAsAll(pages, total_pages) ==
    [kind |-> IF ~pages.given \/ Strip(pages.value) = <<>>
                  \/ ParsePageList(Strip(pages.value), total_pages) = <<>>
              THEN "all" ELSE "set",
     pages |-> SetOf(ParsePageList(Strip(pages.value), total_pages)), err |-> ""]

\* _resolve_page_selection(pages, total_pages): kind "all" is None
ResolvePageSelection(pages, total_pages) ==
    LET value == Strip(pages.value)
        selection == ParsePageList(value, total_pages)
    IN  IF ~pages.given THEN [kind |-> "all", pages |-> {}, err |-> ""]
        ELSE IF value = <<>> THEN [kind |-> "all", pages |-> {}, err |-> ""]
        ELSE IF selection = <<>>
        THEN [kind |-> "raise", pages |-> {}, err |-> "No valid pages selected"]
        ELSE [kind |-> "set", pages |-> SetOf(selection), err |-> ""]

\* rotate_pdf, watermark_pdf, page_numbers_pdf, redact_pdf, highlight_pdf on
\* a readable input: the selection is resolved, the pages are worked on and
\* the output is written
PageTool(pages, total_pages) ==
    LET target == ResolvePageSelection(pages, total_pages)
    IN  IF target.kind = "raise"
        THEN [done |-> TRUE, written |-> FALSE, err |-> target.err, target |-> target,
              margins |-> <<>>]
        ELSE [done |-> TRUE, written |-> TRUE, err |-> "", target |-> target,
              margins |-> <<>>]

\* ---------------------------------------------------------------- _parse_margins / crop_pdf
\* float(text) in tenths of a point, for text with at most one decimal:
\* blanks around it, a sign, digits and one "." are accepted; ok is FALSE
\* where it raises ValueError
ParseFloat(text) ==
    LET t == Strip(text)
        signed == t # <<>> /\ Head(t) \in {"-", "+"}
        mantissa == IF signed THEN Tail(t) ELSE t
        dot == FirstIndex(mantissa, ".")
        ip == IF dot > 0 THEN SubSeq(mantissa, 1, dot - 1) ELSE mantissa
        fp == IF dot > 0 THEN SubSeq(mantissa, dot + 1, Len(mantissa)) ELSE <<>>
        tenths == 10 * Decimal(ip) + (IF fp = <<>> THEN 0 ELSE DigitValue(fp[1]))
    IN  IF (ip = <<>> /\ fp = <<>>)
           \/ (\E i \in 1..Len(ip) : ~IsDigit(ip[i]))
           \/ (\E i \in 1..Len(fp) : ~IsDigit(fp[i]))
        THEN [ok |-> FALSE, v |-> 0]
        ELSE [ok |-> TRUE, v |-> IF signed /\ Head(t) = "-" THEN 0 - tenths ELSE tenths]

\* the components margins are written from: "10", "-5", "bad", " 1.5 ", "60"
\* (k says what the component is, v its value in tenths)
MarginParts ==
    {[k |-> "num", v |-> 100, txt |-> <<"1", "0">>],
     [k |-> "num", v |-> -50, txt |-> <<"-", "5">>],
     [k |-> "junk", v |-> 0, txt |-> <<"b", "a", "d">>],
     [k |-> "num", v |-> 15, txt |-> <<" ", "1", ".", "5", " ">>],
     [k |-> "num", v |-> 600, txt |-> <<"6", "0">>]}

\* margins of one, two and four components, one of five and one whose second
\* component is empty ("10,")
MarginSpecs ==
    UNION {[1..n -> MarginParts] : n \in {1, 2, 4}}
    \cup {[i \in 1..5 |-> [k |-> "num", v |-> 100, txt |-> <<"1", "0">>]],
          <<[k |-> "num", v |-> 100, txt |-> <<"1", "0">>], [k |-> "empty", v |-> 0, txt |-> <<>>]>>}

\* [part.strip() for part in value.split(",") if part.strip()]
RECURSIVE StripParts(_)
StripParts(parts) ==
    IF parts = <<>> THEN <<>>
    ELSE (IF Strip(Head(parts)) = <<>> THEN <<>> ELSE <<Strip(Head(parts))>>)
         \o StripParts(Tail(parts))

\* two values are read as top/bottom and right/left
ParseMarginsPairs(value) ==
    LET parts == StripParts(Split(value, ","))
        numbers == [i \in 1..Len(parts) |-> ParseFloat(parts[i])]
    IN  IF \E i \in 1..Len(numbers) : ~numbers[i].ok
        THEN [ok |-> FALSE, err |-> "Margins must be numeric", v |-> <<>>]
        ELSE IF Len(numbers) = 1
        THEN [ok |-> TRUE, err |-> "",
              v |-> <<numbers[1].v, numbers[1].v, numbers[1].v, numbers[1].v>>]
        ELSE IF Len(numbers) = 2
        THEN [ok |-> TRUE, err |-> "",
              v |-> <<numbers[1].v, numbers[2].v, numbers[1].v, numbers[2].v>>]
        ELSE IF Len(numbers) = 4
        THEN [ok |-> TRUE, err |-> "", v |-> [i \in 1..4 |-> numbers[i].v]]
        ELSE [ok |-> FALSE, err |-> "Margins must have 1 or 4 values", v |-> <<>>]

\* _parse_margins(value): v is <<top, right, bottom, left>>
ParseMargins(value) ==
    LET parts == StripParts(Split(value, ","))
        numbers == [i \in 1..Len(parts) |-> ParseFloat(parts[i])]
    IN  IF \E i \in 1..Len(numbers) : ~numbers[i].ok
        THEN [ok |-> FALSE, err |-> "Margins must be numeric", v |-> <<>>]
        ELSE IF Len(numbers) = 1
        THEN [ok |-> TRUE, err |-> "",
              v |-> <<numbers[1].v, numbers[1].v, numbers[1].v, numbers[1].v>>]
        ELSE IF Len(numbers) = 4
        THEN [ok |-> TRUE, err |-> "", v |-> [i \in 1..4 |-> numbers[i].v]]
        ELSE [ok |-> FALSE, err |-> "Margins must have 1 or 4 values", v |-> <<>>]

\* crop_pdf on a readable input whose pages have the media box
\* (0, 0)..(box.w, box.h), in tenths of a point
CropPdf(margins, pages, total_pages, box) ==
    LET m == ParseMargins(margins)
        target == ResolvePageSelection(pages, total_pages)
        Fail(text) == [done |-> TRUE, written |-> FALSE, err |-> text, target |-> target,
                        margins |-> <<>>]
        cropped == IF target.kind = "all" THEN 1..total_pages ELSE target.pages
    IN  IF ~m.ok THEN [Fail(m.err) EXCEPT !.target = [kind |-> "unread", pages |-> {}, err |-> ""]]
        ELSE IF \E i \in 1..4 : m.v[i] < 0
        THEN [Fail("Margins must be zero or positive")
                  EXCEPT !.target = [kind |-> "unread", pages |-> {}, err |-> ""]]
        ELSE IF target.kind = "raise" THEN Fail(target.err)
        ELSE IF cropped # {} /\ (box.w - m.v[2] <= m.v[4] \/ box.h - m.v[1] <= m.v[3])
        THEN Fail("Crop margins remove the entire page")
        ELSE [done |-> TRUE, written |-> TRUE, err |-> "", target |-> target, margins |-> m.v]

\* one of the page tools is called on a readable document
InitPageTools ==
    /\ WorkerInit
    /\ CompressIdle
    /\ WebIdle
    /\ \/ \E t \in SelectionTools \ {"crop"}, pages \in PageSelections, n \in 0..MaxPages :
            call = [fn |-> t, pages |-> pages, total_pages |-> n]
       \/ \E ms \in MarginSpecs, pages \in PageSelections, n \in {0, MaxPages} :
            call = [fn |-> "crop", pages |-> pages, total_pages |-> n,
                    parts |-> ms, margins |-> JoinTokens(ms), box |-> [w |-> 1000, h |-> 1000]]
    /\ ret = NotReturned

\* rotate_pdf, watermark_pdf, page_numbers_pdf, redact_pdf or highlight_pdf runs
PageToolCall ==
    /\ call.fn \in SelectionTools \ {"crop"}
    /\ ~ret.done
    /\ ret' = PageTool(call.pages, call.total_pages)
    /\ UNCHANGED <<workerVars, compressVars, webVars, call>>

\* crop_pdf runs
CropCall ==
    /\ call.fn = "crop"
    /\ ~ret.done
    /\ ret' = CropPdf(call.margins, call.pages, call.total_pages, call.box)
    /\ UNCHANGED <<workerVars, compressVars, webVars, call>>

NextPageTools == PageToolCall \/ CropCall

SpecPageTools == InitPageTools /\ [][NextPageTools]_vars

\* a page tool has returned or raised
PageToolDone == call.fn \in SelectionTools /\ ret.done

\* the pages the selection names, read from its tokens
NamedPages ==
    {p \in 1..call.total_pages :
        \E i \in 1..Len(call.pages.tokens) :
            LET token == call.pages.tokens[i]
            IN  token.k # "junk" /\ token.a <= p /\ p <= token.b}

\* the selection is not blank and names no page of the document
NoValidPage ==
    /\ call.pages.given
    /\ \E i \in 1..Len(call.pages.value) : call.pages.value[i] # " "
    /\ NamedPages = {}

\* C31: _resolve_page_selection gives all pages for an absent or blank
\* selection, the set of parsed pages for a selection with a valid page, and
\* fails with "No valid pages selected" for a non-blank selection that parses
\* to no page, in which case the tool writes no output.
C31_PageSelection ==
    (PageToolDone /\ ret.target.kind # "unread") =>
        /\ ret.target.kind = "all" <=>
             (~call.pages.given \/ \A i \in 1..Len(call.pages.value) : call.pages.value[i] = " ")
        /\ ret.target.kind = "set" => (ret.target.pages = NamedPages /\ NamedPages # {})
        /\ ret.target.kind = "raise" <=> NoValidPage
        /\ NoValidPage => (~ret.written /\ ret.err = "No valid pages selected")

\* watermark with the selection "7" on a document of fewer pages failed and wrote nothing
C31_Witness ==
    /\ PageToolDone
    /\ call.fn = "watermark"
    /\ call.pages.value = <<"7">>
    /\ call.total_pages = 4
    /\ ~ret.written
    /\ ret.err = "No valid pages selected"

\* the margins have a component that is not a number, a number of values
\* other than 1 or 4, or a negative value
BadMargins ==
    LET values == SelectSeq(call.parts, LAMBDA part : part.k # "empty")
    IN  \/ \E i \in 1..Len(values) : values[i].k = "junk"
        \/ Len(values) \notin {1, 4}
        \/ \E i \in 1..Len(values) : values[i].v < 0

MaxFiles == 2     \* inputs of a job whose output path is built: 0..MaxFiles

\* TOOL_OUTPUT_SUFFIXES; an extension of None is the empty sequence
TOOL_OUTPUT_SUFFIXES ==
    "compress" :> [suffix |-> "compressed", extension |-> <<>>] @@
    "repair" :> [suffix |-> "repaired", extension |-> <<>>] @@
    "rotate" :> [suffix |-> "rotated", extension |-> <<>>] @@
    "remove-pages" :> [suffix |-> "trimmed", extension |-> <<>>] @@
    "reorder-pages" :> [suffix |-> "reordered", extension |-> <<>>] @@
    "watermark" :> [suffix |-> "watermarked", extension |-> <<>>] @@
    "page-numbers" :> [suffix |-> "numbered", extension |-> <<>>] @@
    "crop" :> [suffix |-> "cropped", extension |-> <<>>] @@
    "redact" :> [suffix |-> "redacted", extension |-> <<>>] @@
    "highlight" :> [suffix |-> "highlighted", extension |-> <<>>] @@
    "unlock" :> [suffix |-> "unlocked", extension |-> <<>>] @@
    "protect" :> [suffix |-> "protected", extension |-> <<>>] @@
    "pdfa" :> [suffix |-> "pdfa", extension |-> <<>>] @@
    "pdf-to-word" :> [suffix |-> "word", extension |-> <<".", "d", "o", "c", "x">>] @@
    "pdf-to-text" :> [suffix |-> "text", extension |-> <<".", "t", "x", "t">>] @@
    "compare" :> [suffix |-> "compare", extension |-> <<".", "t", "x", "t">>] @@
    "pdf-to-word-ocr" :> [suffix |-> "word_ocr", extension |-> <<".", "d", "o", "c", "x">>] @@
    "pdf-to-excel" :> [suffix |-> "excel", extension |-> <<".", "x", "l", "s", "x">>] @@
    "pdf-to-excel-ocr" :> [suffix |-> "excel_ocr", extension |-> <<".", "x", "l", "s", "x">>] @@
    "office-to-pdf" :> [suffix |-> "converted", extension |-> <<".", "p", "d", "f">>] @@
    "image-to-pdf" :> [suffix |-> "images", extension |-> <<".", "p", "d", "f">>] @@
    "web-to-pdf" :> [suffix |-> "web", extension |-> <<".", "p", "d", "f">>]

\* the names the inputs of a job were uploaded under, as the stem and the
\* extension they are written from; the last one is the empty name
OriginalNames ==
    {[stem |-> <<"r", "e", "p", "o", "r", "t">>, ext |-> <<".", "p", "d", "f">>],
     [stem |-> <<"r", "e", "p", "o", "r", "t">>, ext |-> <<>>],
     [stem |-> <<"2", "0", "2", "4", "_", "r", "e", "p", "o", "r", "t">>, ext |-> <<".", "p", "d", "f">>],
     [stem |-> <<"1", "2">>, ext |-> <<".", "p", "d", "f">>],
     [stem |-> <<"_", "x">>, ext |-> <<".", "d", "o", "c", "x">>],
     [stem |-> <<"a", ".", "b">>, ext |-> <<".", "p", "d", "f">>],
     [stem |-> <<".", "h", "i", "d", "d", "e", "n">>, ext |-> <<>>],
     [stem |-> <<"7", "_", "7", "_", "s", "c", "a", "n">>, ext |-> <<".", "j", "p", "g">>],
     [stem |-> <<>>, ext |-> <<>>]}

\* f"{index:02d}_{Path(item['filename']).name}"
DownloadName(index, file) ==
    (IF index < 10 THEN <<"0">> ELSE <<>>) \o Digits(index) \o <<"_">> \o file.stem \o file.ext

\* every leading run of digits and "_" is removed
RECURSIVE StripInputPrefixAll(_)
StripInputPrefixAll(name) ==
    LET i == FirstIndex(name, "_")
    IN  IF i > 1 /\ \A k \in 1..(i - 1) : IsDigit(name[k])
        THEN StripInputPrefixAll(SubSeq(name, i + 1, Len(name)))
        ELSE name

\* _strip_input_prefix(path).name
StripInputPrefix(name) ==
    LET i == FirstIndex(name, "_")
    IN  IF i > 1 /\ \A k \in 1..(i - 1) : IsDigit(name[k])
        THEN SubSeq(name, i + 1, Len(name))
        ELSE name

\* the index of the last "." of name, 0 when there is none
LastDot(name) ==
    IF \E i \in 1..Len(name) : name[i] = "."
    THEN CHOOSE i \in 1..Len(name) : name[i] = "." /\ \A k \in (i + 1)..Len(name) : name[k] # "."
    ELSE 0

\* Path(name).suffix: the last "." and what follows, unless the "." leads or ends the name
PathSuffix(name) ==
    IF 1 < LastDot(name) /\ LastDot(name) < Len(name)
    THEN SubSeq(name, LastDot(name), Len(name)) ELSE <<>>

\* Path(name).stem
PathStem(name) ==
    IF 1 < LastDot(name) /\ LastDot(name) < Len(name)
    THEN SubSeq(name, 1, LastDot(name) - 1) ELSE name

\* _normalize_extension(extension)
NormalizeExtension(extension) ==
    IF extension # <<>> /\ Head(extension) = "." THEN extension ELSE <<".">> \o extension

\* _build_output_path(tool, inputs, temp): the name under temp; "derived" is
\* f"{stem}_{suffix}{resolved_extension}"
BuildOutputPath(t, inputs) ==
    IF t = "web-to-pdf" THEN [kind |-> "fixed", name |-> "web_to_pdf.pdf"]
    ELSE IF t \notin DOMAIN TOOL_OUTPUT_SUFFIXES \/ inputs = <<>>
    THEN [kind |-> "fixed", name |-> "output.pdf"]
    ELSE LET base_path == StripInputPrefix(inputs[1])
             stem == IF PathStem(base_path) # <<>> THEN PathStem(base_path)
                     ELSE <<"o", "u", "t", "p", "u", "t">>
             entry == TOOL_OUTPUT_SUFFIXES[t]
             resolved_extension ==
                 IF entry.extension # <<>> THEN entry.extension
                 ELSE IF PathSuffix(base_path) # <<>> THEN PathSuffix(base_path)
                 ELSE <<".", "p", "d", "f">>
         IN  [kind |-> "derived", stem |-> stem, suffix |-> entry.suffix,
              ext |-> NormalizeExtension(resolved_extension)]

\* a job's inputs were downloaded and its output path is asked for
InitOutputPath ==
    /\ WorkerInit
    /\ CompressIdle
    /\ WebIdle
    /\ \E t \in JobTools, n \in 0..MaxFiles : \E originals \in [1..n -> OriginalNames] :
         call = [fn |-> "_build_output_path", tool |-> t, files |-> originals,
                 inputs |-> [i \in 1..n |-> DownloadName(i, originals[i])]]
    /\ ret = NotReturned

\* the call runs
OutputPathCall ==
    /\ call.fn = "_build_output_path"
    /\ ~ret.done
    /\ ret' = [done |-> TRUE, path |-> BuildOutputPath(call.tool, call.inputs)]
    /\ UNCHANGED <<workerVars, compressVars, webVars, call>>

NextOutputPath == OutputPathCall

SpecOutputPath == InitOutputPath /\ [][NextOutputPath]_vars

\* the extension the claim names for the output
ExpectedExtension ==
    IF TOOL_OUTPUT_SUFFIXES[call.tool].extension # <<>>
    THEN TOOL_OUTPUT_SUFFIXES[call.tool].extension
    ELSE IF call.files[1].ext # <<>> THEN call.files[1].ext
    ELSE <<".", "p", "d", "f">>

\* the output path of a tool of the suffix table, other than web-to-pdf,
\* with at least one input was built
DerivedCase ==
    /\ call.fn = "_build_output_path"
    /\ ret.done
    /\ call.tool \in DOMAIN TOOL_OUTPUT_SUFFIXES
    /\ call.tool # "web-to-pdf"
    /\ call.files # <<>>

\* C33 as stated: the stem of the output name is the first input's name
\* without the download prefix, whatever that name is
C33_OutputNameAsStated ==
    DerivedCase =>
        /\ ret.path.kind = "derived"
        /\ ret.path.stem = call.files[1].stem
        /\ ret.path.suffix = TOOL_OUTPUT_SUFFIXES[call.tool].suffix
        /\ ret.path.ext = ExpectedExtension

\* C33: for a tool of the suffix table and at least one input the output
\* name is {stem}_{suffix}{ext}: stem is the first input's name without the
\* download prefix, or "output" when that leaves no stem, ext the table's
\* extension or else the input's extension, ".pdf" when there is none;
\* web-to-pdf always uses web_to_pdf.pdf.
C33_OutputName ==
    /\ (call.fn = "_build_output_path" /\ ret.done /\ call.tool = "web-to-pdf") =>
         ret.path = [kind |-> "fixed", name |-> "web_to_pdf.pdf"]
    /\ DerivedCase =>
         /\ ret.path.kind = "derived"
         /\ ret.path.stem = (IF call.files[1].stem = <<>> THEN <<"o", "u", "t", "p", "u", "t">>
                             ELSE call.files[1].stem)
         /\ ret.path.suffix = TOOL_OUTPUT_SUFFIXES[call.tool].suffix
         /\ ret.path.ext = ExpectedExtension

\* rotate on "2024_report.pdf", downloaded as "01_2024_report.pdf", is named 2024_report_rotated.pdf
C33_Witness ==
    /\ call.fn = "_build_output_path"
    /\ ret.done
    /\ call.tool = "rotate"
    /\ call.files # <<>>
    /\ call.inputs[1] = <<"0", "1", "_", "2", "0", "2", "4", "_", "r", "e", "p", "o", "r", "t",
                          ".", "p", "d", "f">>
    /\ ret.path = [kind |-> "derived", stem |-> call.files[1].stem, suffix |-> "rotated",
                   ext |-> <<".", "p", "d", "f">>]

\* ---------------------------------------------------------------- _detect_image_heavy
MaxDocPages == 3  \* documents of 0..MaxDocPages pages with any page contents

\* what one page holds: the number of images and of text characters
PageKinds ==
    {[images |-> 0, text |-> 1000], [images |-> 1, text |-> 0], [images |-> 1, text |-> 1000],
     [images |-> 0, text |-> 100], [images |-> 2, text |-> 499]}

\* short documents of any pages, and documents of 12 and 25 pages whose
\* first or last k pages are scans and whose other pages are text
Documents ==
    UNION {[1..n -> PageKinds] : n \in 0..MaxDocPages}
    \cup {[i \in 1..n |-> IF i <= k THEN [images |-> 1, text |-> 0]
                          ELSE [images |-> 0, text |-> 1000]] : n \in {12, 25}, k \in 0..25}
    \cup {[i \in 1..n |-> IF i > k THEN [images |-> 1, text |-> 0]
                          ELSE [images |-> 0, text |-> 1000]] : n \in {12, 25}, k \in 0..25}

\* int(round(n / d)) for n >= 0 and d > 0: halves go to the even neighbour
Round(n, d) ==
    LET q == n \div d
        r == n % d
    IN  IF 2 * r < d THEN q
        ELSE IF 2 * r > d THEN q + 1
        ELSE IF q % 2 = 0 THEN q ELSE q + 1

\* the sum of f over the pages at the 0-based indexes first, first + step, ...,
\* at most left of them
RECURSIVE SumSampled(_, _, _, _, _)
SumSampled(doc, first, step, left, f) ==
    IF left = 0 \/ first >= Len(doc) THEN 0
    ELSE doc[first + 1][f] + SumSampled(doc, first + step, step, left - 1, f)

\* the number of pages the loop of _detect_image_heavy loads
Sampled(pages, step, sample_pages) ==
    Min(sample_pages, (pages + step - 1) \div step)

\* the document is image-heavy also when it has no page
DetectImageHeavyEmptyAsHeavy(doc, failed) ==
    LET pages == Len(doc)
        sample_pages == Min(pages, 10)
        step == IF sample_pages = 0 THEN 1 ELSE Max(1, pages \div sample_pages)
        sampled == Sampled(pages, step, sample_pages)
        image_count == SumSampled(doc, 0, step, sample_pages, "images")
        text_chars == SumSampled(doc, 0, step, sample_pages, "text")
    IN  [pages |-> pages, sampled_pages |-> sampled,
         image_count |-> IF sampled > 0 THEN Round(image_count * pages, sampled) ELSE 0,
         text_chars |-> IF sampled > 0 THEN Round(text_chars * pages, sampled) ELSE 0,
         sampled_images |-> image_count, sampled_text |-> text_chars,
         image_heavy |->
             \/ (IF sampled > 0 THEN Round(image_count * pages, sampled) ELSE 0) >= pages
             \/ (text_chars < 500 * sampled /\ 2 * image_count > sampled)]

\* _detect_image_heavy(path): the metrics; failed says that opening or
\* reading the document raised. sampled_images and sampled_text are the sums
\* images_per_page and text_chars_per_page are the quotients of.
DetectImageHeavy(doc, failed) ==
    LET pages == Len(doc)
        sample_pages == Min(pages, 10)
        step == IF sample_pages = 0 THEN 1 ELSE Max(1, pages \div sample_pages)
        sampled == Sampled(pages, step, sample_pages)
        image_count == SumSampled(doc, 0, step, sample_pages, "images")
        text_chars == SumSampled(doc, 0, step, sample_pages, "text")
        metrics == [pages |-> 0, sampled_pages |-> 0, image_count |-> 0, text_chars |-> 0,
                    sampled_images |-> 0, sampled_text |-> 0, image_heavy |-> FALSE]
    IN  IF failed THEN metrics
        ELSE IF pages = 0 THEN metrics
        ELSE [pages |-> pages, sampled_pages |-> sampled,
              image_count |-> Round(image_count * pages, sampled),
              text_chars |-> Round(text_chars * pages, sampled),
              sampled_images |-> image_count, sampled_text |-> text_chars,
              image_heavy |->
                  \/ Round(image_count * pages, sampled) >= pages
                  \/ (text_chars < 500 * sampled /\ 2 * image_count > sampled)]

\* compress_pdf inspects a document
InitDetect ==
    /\ WorkerInit
    /\ CompressIdle
    /\ WebIdle
    /\ \E doc \in Documents, failed \in BOOLEAN :
         call = [fn |-> "_detect_image_heavy", doc |-> doc, failed |-> failed]
    /\ ret = NotReturned

\* the detector runs and its metrics go into the report
DetectCall ==
    /\ call.fn = "_detect_image_heavy"
    /\ ~ret.done
    /\ ret' = [done |-> TRUE, image_metrics |-> DetectImageHeavy(call.doc, call.failed)]
    /\ UNCHANGED <<workerVars, compressVars, webVars, call>>

NextDetect == DetectCall

SpecDetect == InitDetect /\ [][NextDetect]_vars

\* the condition the report's figures are held against: the estimated image
\* count is at least the page count, or the text per sampled page is below
\* 500 and the images per sampled page exceed 0.5
HeavyByFigures ==
    \/ ret.image_metrics.image_count >= ret.image_metrics.pages
    \/ /\ ret.image_metrics.sampled_text < 500 * ret.image_metrics.sampled_pages
       /\ 2 * ret.image_metrics.sampled_images > ret.image_metrics.sampled_pages

GsSteps == laneOut["ghostscript"].steps

\* the lane's entries of one name that stand for a command that ran
GsRan(name) ==
    {i \in 1..Len(GsSteps) :
        /\ GsSteps[i].name = name
        /\ GsSteps[i].notes \notin {"skipped: image-heavy handled",
                                     "skipped: ghostscript not available",
                                     "skipped: below size threshold",
                                     "skipped: already reduced", "skipped: probe failed"}}

\* probe first, one retry after a failed full run, at most one candidate and
\* only from a run that succeeded
GsLaneOrder ==
    /\ \A i \in GsRan("ghostscript_full") : \E j \in GsRan("ghostscript_probe") : j < i
    /\ Cardinality(GsRan("ghostscript_probe")) <= 1
    /\ Cardinality(GsRan("ghostscript_full")) <= 1
    /\ Cardinality(GsRan("ghostscript_retry")) <= 1
    /\ \A i \in GsRan("ghostscript_retry") :
         \E j \in GsRan("ghostscript_full") : j < i /\ ~GsSteps[j].ok
    /\ (lanePc["ghostscript"] = "collected") =>
         \A j \in GsRan("ghostscript_full") :
             ~GsSteps[j].ok => GsRan("ghostscript_retry") # {}
    /\ Len(laneOut["ghostscript"].candidates) <= 1
    /\ \A c \in 1..Len(laneOut["ghostscript"].candidates) :
         LET label == laneOut["ghostscript"].candidates[c].label
         IN  \E i \in 1..Len(GsSteps) :
               /\ GsSteps[i].ok
               /\ \/ label = "ghostscript" /\ GsSteps[i].name = "ghostscript_full"
                  \/ label = "ghostscript_retry" /\ GsSteps[i].name = "ghostscript_retry"

\* C35 as stated: the full run is executed only if the probe succeeded and
\* probeMs / probePages * totalPages does not exceed timeoutSeconds * 1000
C35_FullOnlyWithinEstimate ==
    /\ GsLaneOrder
    /\ \A i \in GsRan("ghostscript_full") : \A j \in GsRan("ghostscript_probe") :
         /\ GsSteps[j].ok
         /\ GsSteps[j].ms * ExpectedPages <= TimeoutSeconds * 1000 * ProbePages

\* C35: in the Ghostscript lane the probe runs first; the full run is
\* executed only if the probe succeeded and its extrapolated time, cut to
\* whole milliseconds, does not exceed timeoutSeconds * 1000; a failed full
\* run is retried exactly once; the lane yields at most one candidate, and
\* only from a run that succeeded.
C35_GhostscriptLane ==
    /\ GsLaneOrder
    /\ \A i \in GsRan("ghostscript_full") : \A j \in GsRan("ghostscript_probe") :
         /\ GsSteps[j].ok
         /\ (GsSteps[j].ms * ExpectedPages) \div ProbePages <= TimeoutSeconds * 1000
    /\ \A j \in GsRan("ghostscript_probe") :
         (GsSteps[j].ok /\ (GsSteps[j].ms * ExpectedPages) \div ProbePages > TimeoutSeconds * 1000)
             => GsRan("ghostscript_full") = {}

\* the probe passed, the full run failed, and the retry gave the lane's candidate
C35_Witness ==
    /\ lanePc["ghostscript"] = "collected"
    /\ GsRan("ghostscript_probe") # {}
    /\ \E i \in GsRan("ghostscript_full") : ~GsSteps[i].ok
    /\ \E i \in GsRan("ghostscript_retry") : GsSteps[i].ok
    /\ Len(laneOut["ghostscript"].candidates) = 1

\* ---------------------------------------------------------------- the report of compress_pdf
\* C36: in the report compress_pdf returns, status is "success" exactly when
\* the savings of the final output file (original_bytes minus output_bytes)
\* are at least minSavingsBytes and at least the threshold fraction of the
\* original size, and the final output is never larger than the input.
C36_StatusMatchesSavings ==
    cpc = "returned" =>
        /\ status = "success" <=>
             (/\ OrigSize - OutputBytes >= MinSavingsBytes
              /\ (OrigSize - OutputBytes) * 100 >= ThresholdPct * OrigSize)
        /\ OutputBytes <= OrigSize

\* C37: the method in the report names the producer of the file that was
\* materialized: it is "passthrough" whenever that file is the original
\* input, also after the threshold step switched to it, and another method
\* is reported only when that stage's candidate was materialized.
C37_MethodNamesProducer ==
    cpc \in {"deterministic", "zopfli", "cleanup", "returned"} =>
        /\ best.path = "input" => method = "passthrough"
        /\ method # "passthrough" => (best.method = method /\ best.path # "input")

\* ---------------------------------------------------------------- the sources of the stages
\* the file at path is the original input or was written by a command that exited 0
SourceSucceeded(path) == path = "input" \/ files[path].st \in {"valid", "invalid"}

\* a command of the stage has been run
StageRan(name) ==
    \E i \in 1..Len(steps) : steps[i].name = name /\ steps[i].notes \notin
        {"skipped: qpdf not available", "skipped: mutool not available"}

\* C38: every pipeline stage reads a source file that is either the original
\* input or the output of an earlier stage whose command succeeded: the
\* optimize stages and the image-opt and pdfsizeopt lanes read base_path,
\* the early Ghostscript run reads normalized_path and the Ghostscript lane
\* reads gs_input_path.
C38_SourcesSucceeded ==
    cpc \notin {"idle", "cleanup", "returned"} =>
        /\ SourceSucceeded(basePath)
        /\ SourceSucceeded(gsInputPath)
        /\ StageRan("ghostscript_early") => SourceSucceeded(normalizedPath)

\* ---------------------------------------------------------------- a lane task that raises
\* the task of lane l is at a command: subprocess.run is about to be called
AtCommand(l) ==
    \/ l = "image_opt" /\ lanePc[l] = "running" /\ cfg.qpdf
    \/ l = "pdfsizeopt" /\ lanePc[l] = "running" /\ cfg.pdfsizeopt /\ shouldRun
    \/ l = "ghostscript" /\ lanePc[l] = "running" /\ GsSkip = ""
    \/ l = "ghostscript" /\ lanePc[l] \in {"probed", "retry"}

\* the bundle stored for a future whose result() raised
FailureBundle(l) ==
    [steps |-> <<MakeStepEntry(l, [ok |-> FALSE, timeout |-> FALSE, stderr |-> "OSError"], "")>>,
     candidates |-> <<>>, tempPaths |-> <<>>, warnings |-> <<l \o " failed: OSError">>]

\* subprocess.run raises in a lane task (_run_cmd catches TimeoutExpired
\* only): with the executor future.result() raises and the failure bundle is
\* stored; in the sequential loop task() raises out of compress_pdf
LaneRaise(l) ==
    /\ cpc = "tasks"
    /\ AtCommand(l)
    /\ IF Parallel
       THEN /\ laneOut' = [laneOut EXCEPT ![l] = FailureBundle(l)]
            /\ LaneMoves(l, "collected")
            /\ UNCHANGED <<cpc, raised>>
       ELSE /\ raised' = "OSError"
            /\ cpc' = "raised"
            /\ UNCHANGED <<lanePc, laneOut, taskResults>>
    /\ UNCHANGED <<workerVars, webVars, callVars, cfg, files, budgetVars, listVars, pathVars,
                   shouldRun, taskSpecs, selVars>>

\* compress_pdf up to the check for candidates, with every lane, where the
\* commands of the lanes can also fail to start
NextLaneErrors ==
    \/ NextLanes
    \/ \E l \in Lanes : LaneRaise(l)

SpecLaneErrors == InitLanes /\ [][NextLaneErrors]_vars

\* the bundles merged lane by lane in the order of task_specs, read from the
\* lanes themselves
RECURSIVE MergedByLane(_, _)
MergedByLane(acc, names) ==
    IF names = <<>> THEN acc
    ELSE LET o == laneOut[names[1]]
             a == [acc EXCEPT !.steps = @ \o o.steps, !.warnings = @ \o o.warnings]
             b == AddAll(a, o.candidates)
         IN MergedByLane([b EXCEPT !.tempPaths = @ \o o.tempPaths], Tail(names))

\* C39: for the same outcomes of the individual lane commands, the steps,
\* warnings and candidates appended after the heavy-lane phase, and their
\* order, are the same whether the lanes run sequentially or concurrently,
\* and do not depend on the order in which concurrent lanes finish: in
\* either mode the phase ends with the merge, and what the merge appends is
\* determined by the lanes' bundles taken in the order of task_specs. (With
\* the executor a task that raised is merged as a failure bundle, so the
\* same has to hold in the sequential loop.)
C39_LanesModeIndependent ==
    [][cpc = "tasks" =>
         /\ cpc' \in {"tasks", "check"}
         /\ cpc' = "check" =>
              LET m == MergedByLane([steps |-> steps, warnings |-> warnings,
                                     candidates |-> candidates, tempPaths |-> tempPaths],
                                    taskSpecs)
              IN  /\ steps' = m.steps
                  /\ warnings' = m.warnings
                  /\ candidates' = m.candidates]_vars

\* ---------------------------------------------------------------- run() as a daemon
\* the worker process keeps running: while some thread of it can take a
\* step, a step is taken (main() calls run() once and nothing restarts it)
SpecDaemon == Init /\ [][Next]_vars /\ WF_vars(Next)

\* client.mutation raised in the claim of run(): the exception left the
\* while loop, run() and main()
ClaimFailed == pc = "crashed" /\ exc.cls # "none"

\* run() is inside self._mutation("jobs:claimNextJob", ...)
ClaimIssued == pc = "claim" /\ Main \in inflight

\* C40: the worker is a long-running daemon: a failed jobs:claimNextJob RPC
\* (transport error, non-accepted HTTP status or error envelope) does not
\* end the polling loop, and run() eventually issues claimNextJob again.
C40_FailedClaimRetried == [](ClaimFailed => <>ClaimIssued)

====
